---- MODULE Spec2Model ----
(***************************************************************************)
(* Model of the property investment analyzer (src/app.js): the amortization *)
(* and projection functions, recalculateProperty, and the handlers that     *)
(* change the property list, the settings and local storage.                *)
(*                                                                          *)
(* JavaScript Numbers are modelled as exact rationals extended with NaN,    *)
(* the two infinities and undefined. Rationals are kept in lowest terms     *)
(* over arbitrary-size naturals (little-endian sequences of base-10000      *)
(* limbs), so that compound-interest powers are computed exactly. IEEE-754  *)
(* rounding is not modelled.                                                *)
(***************************************************************************)
EXTENDS Integers, Sequences, FiniteSets, Bags, TLC

\* ---------------------------------------------------------------------
\* Arbitrary-size naturals: <<>> is 0, limb 1 is the least significant,
\* every limb is in 0..9999 and the top limb is not 0.
\* The passes over the limbs are written without recursion wherever a limb
\* of the result depends on a bounded neighbourhood or on a carry that can
\* be looked ahead, which keeps TLC's evaluation shallow.
\* ---------------------------------------------------------------------

\* Call(f, a, b, c, d, e) is the function named f applied to as many of a, b, c,
\* d and e as it takes (None fills the rest); it is
\* defined after the functions, which reach one another through it.
RECURSIVE Call(_, _, _, _, _, _)
None == 0

NatCmp(a, b) == Call("NatCmp", a, b, None, None, None)
NatCarry(s) == Call("NatCarry", s, None, None, None, None)
NatAdd(a, b) == Call("NatAdd", a, b, None, None, None)
NatSub(a, b) == Call("NatSub", a, b, None, None, None)
NatMulLimb(a, m) == Call("NatMulLimb", a, m, None, None, None)
NatMul(a, b) == Call("NatMul", a, b, None, None, None)
NatPow(a, e) == Call("NatPow", a, e, None, None, None)
NatHalf(a) == Call("NatHalf", a, None, None, None, None)
NatQuotLimb(cur, b) == Call("NatQuotLimb", cur, b, None, None, None)
NatDivRange(a, b, lo, hi, rem) == Call("NatDivRange", a, b, lo, hi, rem)
NatGcdStep(st) == Call("NatGcdStep", st, None, None, None, None)
NatGcdRun(st, n) == Call("NatGcdRun", st, n, None, None, None)
Rat(s, n, d) == Call("Rat", s, n, d, None, None)
RatCmp(a, b) == Call("RatCmp", a, b, None, None, None)
RatAdd(a, b) == Call("RatAdd", a, b, None, None, None)
RatMul(a, b) == Call("RatMul", a, b, None, None, None)

\* TLC evaluates a definition of a LET, and an argument of an operator, where
\* it is first used. Evaluated(<<v1, ..., vn>>) evaluates v1, ..., vn in this
\* order on the spot.
Evaluated(values) == Len(values) >= 0

NatTrim(a) ==
    IF a = <<>> THEN <<>>
    ELSE IF a[Len(a)] # 0 THEN a
    ELSE LET k == CHOOSE i \in 0..Len(a) :
                      /\ i = 0 \/ a[i] # 0
                      /\ \A j \in (i + 1)..Len(a) : a[j] = 0
         IN  SubSeq(a, 1, k)

NatOfInt(i) == NatTrim(<<i % 10000, (i \div 10000) % 10000, i \div 100000000>>)

Limb(a, i) == IF i >= 1 /\ i <= Len(a) THEN a[i] ELSE 0

\* for a natural below 2^31
NatToInt(a) == Limb(a, 1) + 10000 * Limb(a, 2) + 100000000 * Limb(a, 3)

\* operands of at most two limbs are handled with TLC's own integers
NatSmall(a) == Len(a) <= 2

NatCmpDef(a, b) ==
    IF Len(a) < Len(b) THEN -1
    ELSE IF Len(a) > Len(b) THEN 1
    ELSE IF a = b THEN 0
    ELSE IF \E i \in 1..Len(a) :
                a[i] > b[i] /\ \A j \in (i + 1)..Len(a) : a[j] = b[j]
         THEN 1
    ELSE -1

\* the natural of the columns s, each in 0..19998: the carry into column i
\* is 1 when a column below overflows and every column in between is 9999
NatCarryDef(s) ==
    LET c(i) == /\ i > 1
                /\ \/ s[i - 1] >= 10000
                   \/ /\ s[i - 1] = 9999
                      /\ \E j \in 1..(i - 2) :
                             s[j] >= 10000 /\ \A m \in (j + 1)..(i - 2) : s[m] = 9999
        t == [i \in 1..(Len(s) + 1) |->
                 ((IF i <= Len(s) THEN s[i] ELSE 0) + (IF c(i) THEN 1 ELSE 0)) % 10000]
    IN  NatTrim(t)

NatAddDef(a, b) ==
    IF a = <<>> THEN b
    ELSE IF b = <<>> THEN a
    ELSE IF NatSmall(a) /\ NatSmall(b) THEN NatOfInt(NatToInt(a) + NatToInt(b))
    ELSE LET n == IF Len(a) > Len(b) THEN Len(a) ELSE Len(b)
         IN  NatCarry([i \in 1..n |-> Limb(a, i) + Limb(b, i)])

\* a - b for a >= b: the borrow into limb i is 1 when a limb below is short
\* and every limb in between is level
NatSubDef(a, b) ==
    IF b = <<>> THEN a
    ELSE IF NatSmall(a) THEN NatOfInt(NatToInt(a) - NatToInt(b))
    ELSE LET d == [i \in 1..Len(a) |-> a[i] - Limb(b, i)]
             w(i) == /\ i > 1
                     /\ \/ d[i - 1] < 0
                        \/ /\ d[i - 1] = 0
                           /\ \E j \in 1..(i - 2) :
                                  d[j] < 0 /\ \A m \in (j + 1)..(i - 2) : d[m] = 0
         IN  NatTrim([i \in 1..Len(a) |-> (d[i] - (IF w(i) THEN 1 ELSE 0)) % 10000])

\* a * m for one limb 0 <= m < 10000
NatMulLimbDef(a, m) ==
    IF m = 0 \/ a = <<>> THEN <<>>
    ELSE IF m = 1 THEN a
    ELSE NatCarry([i \in 1..(Len(a) + 1) |->
                      ((Limb(a, i) * m) % 10000) + ((Limb(a, i - 1) * m) \div 10000)])

\* a * b: column k collects the products a[i] * b[k + 1 - i], their low
\* parts in column k and their high parts in column k + 1
NatMulDef(a, b) ==
    IF a = <<>> \/ b = <<>> THEN <<>>
    ELSE IF Len(a) = 1 /\ Len(b) = 1 THEN NatOfInt(a[1] * b[1])
    ELSE IF Len(b) = 1 THEN NatMulLimb(a, b[1])
    ELSE IF Len(a) = 1 THEN NatMulLimb(b, a[1])
    ELSE LET n == Len(a) + Len(b)
             from(k) == IF k > Len(b) THEN k + 1 - Len(b) ELSE 1
             upto(k) == IF k > Len(a) THEN Len(a) ELSE k
             low  == [k \in 0..n |->
                         IF k = 0 \/ from(k) > upto(k) THEN 0
                         ELSE BagCardinality([i \in from(k)..upto(k) |->
                                  ((a[i] * b[k + 1 - i]) % 10000) + 1])
                              - (upto(k) + 1 - from(k))]
             high == [k \in 0..n |->
                         IF k = 0 \/ from(k) > upto(k) THEN 0
                         ELSE BagCardinality([i \in from(k)..upto(k) |->
                                  ((a[i] * b[k + 1 - i]) \div 10000) + 1])
                              - (upto(k) + 1 - from(k))]
             col  == [k \in 0..n |-> IF k = 0 THEN 0 ELSE low[k] + high[k - 1]]
         IN  NatCarry([k \in 1..n |-> (col[k] % 10000) + (col[k - 1] \div 10000)])

NatPowDef(a, e) ==
    IF e = 0 THEN <<1>>
    ELSE IF e = 1 THEN a
    ELSE LET Square(h) == NatMul(h, h)
         IN  NatMul(Square(NatPow(a, e \div 2)), IF e % 2 = 0 THEN <<1>> ELSE a)

NatHalfDef(a) ==
    NatTrim([i \in 1..Len(a) |-> (a[i] + 10000 * (Limb(a, i + 1) % 2)) \div 2])

NatEven(a) == a = <<>> \/ a[1] % 2 = 0

\* the quotient limb cur \div b, for cur < 10000 * b and a top limb of b of
\* at least 5000: the estimate q from the top limbs is at most 2 too large
NatQuotLimbDef(cur, b) ==
    IF NatCmp(cur, b) < 0 THEN 0
    ELSE LET n   == Len(b)
             top == Limb(cur, n + 1) * 10000 + Limb(cur, n)
             Fit(q) == IF NatCmp(NatMulLimb(b, q), cur) <= 0 THEN q
                       ELSE IF NatCmp(NatMulLimb(b, q - 1), cur) <= 0 THEN q - 1
                       ELSE q - 2
         IN  Fit(IF top \div b[n] > 9999 THEN 9999 ELSE top \div b[n])

\* long division by b of the limbs lo..hi of a, from the top, rem being
\* the remainder carried in: quotient limbs d and remainder c
NatDivRangeDef(a, b, lo, hi, rem) ==
    IF lo = hi
    THEN LET Digit(cur, qd) ==
                 IF Evaluated(<<cur, qd>>)
                 THEN [d |-> <<qd>>, c |-> NatSub(cur, NatMulLimb(b, qd))]
                 ELSE [d |-> <<>>, c |-> <<>>]
             Step(cur) == Digit(cur, NatQuotLimb(cur, b))
         IN  Step(NatTrim(<<a[lo]>> \o rem))
    ELSE LET Join(high, low) ==
                 IF Evaluated(<<high, low>>)
                 THEN [d |-> low.d \o high.d, c |-> low.c]
                 ELSE high
             Lower(high) == Join(high, NatDivRange(a, b, lo, (lo + hi) \div 2, high.c))
         IN  Lower(NatDivRange(a, b, (lo + hi) \div 2 + 1, hi, rem))

\* quotient d and remainder c of a by b > 0; a and b are first scaled by f
\* so that the top limb of the divisor is at least 5000
NatLongDivision(a, b) ==
    IF NatCmp(a, b) < 0 THEN [d |-> <<>>, c |-> a]
    ELSE IF NatSmall(a)
         THEN [d |-> NatOfInt(NatToInt(a) \div NatToInt(b)),
               c |-> NatOfInt(NatToInt(a) % NatToInt(b))]
    ELSE LET f == 10000 \div (b[Len(b)] + 1)
             Result(q) ==
                 IF Evaluated(<<q>>) THEN [d |-> q, c |-> NatSub(a, NatMul(b, q))]
                 ELSE [d |-> <<>>, c |-> <<>>]
             Scaled(fa, fb) ==
                 IF Evaluated(<<fa, fb>>)
                 THEN Result(NatTrim(NatDivRange(fa, fb, 1, Len(fa) - Len(fb) + 1,
                          NatTrim(SubSeq(fa, Len(fa) - Len(fb) + 2, Len(fa)))).d))
                 ELSE Result(<<>>)
         IN  Scaled(NatMulLimb(a, f), NatMulLimb(b, f))

NatDivMod(a, b) == Call("divmod", a, b, None, None, None)

NatDiv(a, b) == IF b = <<1>> THEN a ELSE NatDivMod(a, b).d

\* Euclid's algorithm on a pair of integers below 10^8 (at most 40 steps)
RECURSIVE IntGcd(_, _)
IntGcd(a, b) == IF b = 0 THEN a ELSE IntGcd(b, a % b)

\* one step of the binary gcd algorithm on [a, b, k]: gcd = gcd(a, b) * 2^k
NatGcdStepDef(st) ==
    IF st.a = st.b THEN st
    ELSE IF NatEven(st.a) /\ NatEven(st.b)
         THEN [a |-> NatHalf(st.a), b |-> NatHalf(st.b), k |-> st.k + 1]
    ELSE IF NatEven(st.a) THEN [st EXCEPT !.a = NatHalf(st.a)]
    ELSE IF NatEven(st.b) THEN [st EXCEPT !.b = NatHalf(st.b)]
    ELSE IF NatCmp(st.a, st.b) > 0 THEN [st EXCEPT !.a = NatHalf(NatSub(st.a, st.b))]
    ELSE [st EXCEPT !.b = NatHalf(NatSub(st.b, st.a))]

\* n steps of the algorithm
NatGcdRunDef(st, n) ==
    IF st.a = st.b THEN st
    ELSE IF n <= 1 THEN NatGcdStep(st)
    ELSE LET Rest(half) == IF Evaluated(<<half>>) THEN NatGcdRun(half, n - n \div 2) ELSE st
         IN  Rest(NatGcdRun(st, n \div 2))

\* greatest common divisor of two positive naturals: the larger is first
\* reduced modulo the smaller, the binary algorithm finishes (it takes at
\* most one step for each bit of its two operands, 14 bits to a limb)
NatGcdReduced(a, b) ==
    IF a = <<1>> \/ b = <<1>> THEN <<1>>
    ELSE IF a = b THEN a
    ELSE IF NatSmall(a) /\ NatSmall(b) THEN NatOfInt(IntGcd(NatToInt(a), NatToInt(b)))
    ELSE LET Scale(st) == IF Evaluated(<<st>>) THEN NatMul(st.a, NatPow(<<2>>, st.k)) ELSE <<>>
             Finish(small, r) ==
                 IF r = <<>> THEN small
                 ELSE IF NatSmall(small)
                      THEN NatOfInt(IntGcd(NatToInt(small), NatToInt(r)))
                 ELSE Scale(NatGcdRun([a |-> small, b |-> r, k |-> 0],
                                      16 * (Len(small) + Len(r))))
             Reduce(big, small) == Finish(small, NatDivMod(big, small).c)
         IN  Reduce(IF NatCmp(a, b) >= 0 THEN a ELSE b, IF NatCmp(a, b) >= 0 THEN b ELSE a)

NatGcd(a, b) == Call("gcd", a, b, None, None, None)

\* ---------------------------------------------------------------------
\* JavaScript Numbers: an exact rational s * n / d in lowest terms
\* (s the sign, n and d naturals, d > 0), NaN, +-Infinity, undefined
\* (a field or input that is missing) or null (what JSON keeps of NaN and
\* of the infinities; it counts as 0 in arithmetic).
\* ---------------------------------------------------------------------
Zero == [k |-> "num", s |-> 0, n |-> <<>>, d |-> <<1>>]
NaN == [k |-> "nan", s |-> 0, n |-> <<>>, d |-> <<1>>]
Undefined == [k |-> "undef", s |-> 0, n |-> <<>>, d |-> <<1>>]
Null == [k |-> "null", s |-> 0, n |-> <<>>, d |-> <<1>>]
Infinity(s) == [k |-> "inf", s |-> s, n |-> <<>>, d |-> <<1>>]

\* s * n / d reduced to lowest terms
RatDef(s, n, d) ==
    IF n = <<>> \/ s = 0 THEN Zero
    ELSE LET Lowest(g) ==
                 IF Evaluated(<<g>>)
                 THEN [k |-> "num", s |-> s, n |-> NatDiv(n, g), d |-> NatDiv(d, g)]
                 ELSE Zero
         IN  Lowest(NatGcd(n, d))

\* the Number of a (32-bit) integer literal
I(i) ==
    IF i = 0 THEN Zero
    ELSE [k |-> "num", s |-> IF i < 0 THEN -1 ELSE 1,
          n |-> NatOfInt(IF i < 0 THEN -i ELSE i), d |-> <<1>>]

\* ToNumber: undefined is NaN, null is 0
ToNumber(a) == IF a.k = "undef" THEN NaN ELSE IF a.k = "null" THEN Zero ELSE a

IsNaN(a) == a.k \in {"nan", "undef"}
IsNum(a) == a.k = "num"

Neg(a) == IF IsNaN(a) THEN NaN ELSE [a EXCEPT !.s = -a.s]

\* sign of a - b for two rationals
RatCmpDef(a, b) ==
    IF a.s # b.s THEN (IF a.s < b.s THEN -1 ELSE 1)
    ELSE IF a.s = 0 THEN 0
    ELSE a.s * NatCmp(NatMul(a.n, b.d), NatMul(b.n, a.d))

\* a + b over the least common denominator ad * bd * g, g = gcd(a.d, b.d):
\* what the sum of the numerators shares with it divides g
RatAddDef(a, b) ==
    IF a.s = 0 THEN b
    ELSE IF b.s = 0 THEN a
    ELSE LET Lowest(s, n, ad, h) ==
                 IF Evaluated(<<h>>)
                 THEN [k |-> "num", s |-> s, n |-> NatDiv(n, h),
                       d |-> NatMul(ad, NatDiv(b.d, h))]
                 ELSE Zero
             Sum(s, n, g, ad) == IF Evaluated(<<n>>) THEN Lowest(s, n, ad, NatGcd(n, g)) ELSE Zero
             Signed(x, y, c, g, ad) ==
                 IF a.s = b.s THEN Sum(a.s, NatAdd(x, y), g, ad)
                 ELSE IF c = 0 THEN Zero
                 ELSE Sum(IF c > 0 THEN a.s ELSE b.s,
                          IF c > 0 THEN NatSub(x, y) ELSE NatSub(y, x), g, ad)
             Cross(x, y, g, ad) ==
                 IF Evaluated(<<x, y>>) THEN Signed(x, y, NatCmp(x, y), g, ad) ELSE Zero
             Over(g, ad, bd) ==
                 IF Evaluated(<<ad, bd>>)
                 THEN Cross(NatMul(a.n, bd), NatMul(b.n, ad), g, ad)
                 ELSE Zero
             Common(g) ==
                 IF Evaluated(<<g>>) THEN Over(g, NatDiv(a.d, g), NatDiv(b.d, g)) ELSE Zero
         IN  Common(NatGcd(a.d, b.d))

RatMulDef(a, b) ==
    IF a.s = 0 \/ b.s = 0 THEN Zero
    ELSE LET Cancel(g1, g2) ==
                 IF Evaluated(<<g1, g2>>)
                 THEN [k |-> "num", s |-> a.s * b.s,
                       n |-> NatMul(NatDiv(a.n, g1), NatDiv(b.n, g2)),
                       d |-> NatMul(NatDiv(a.d, g2), NatDiv(b.d, g1))]
                 ELSE Zero
         IN  Cancel(NatGcd(a.n, b.d), NatGcd(b.n, a.d))

\* 1 / a for a # 0
RatInv(a) == [k |-> "num", s |-> a.s, n |-> a.d, d |-> a.n]

\* a + b
AddNumbers(a, b) ==
    IF IsNaN(a) \/ IsNaN(b) THEN NaN
    ELSE IF a.k = "inf" /\ b.k = "inf" THEN (IF a.s = b.s THEN a ELSE NaN)
    ELSE IF a.k = "inf" THEN a
    ELSE IF b.k = "inf" THEN b
    ELSE RatAdd(a, b)

\* a * b
MulNumbers(a, b) ==
    IF IsNaN(a) \/ IsNaN(b) THEN NaN
    ELSE IF a.k = "inf" \/ b.k = "inf"
         THEN (IF a.s * b.s = 0 THEN NaN ELSE Infinity(a.s * b.s))
    ELSE RatMul(a, b)

\* a / b
DivNumbers(a, b) ==
    IF IsNaN(a) \/ IsNaN(b) THEN NaN
    ELSE IF a.k = "inf" THEN (IF b.k = "inf" THEN NaN ELSE Infinity(IF b.s < 0 THEN -a.s ELSE a.s))
    ELSE IF b.k = "inf" THEN Zero
    ELSE IF b.s = 0 THEN (IF a.s = 0 THEN NaN ELSE Infinity(a.s))
    ELSE RatMul(a, RatInv(b))

\* sign of a - b for two Numbers that are not NaN
CmpNumbers(a, b) ==
    IF a.k = "inf" \/ b.k = "inf"
    THEN (IF a.k = "inf" /\ b.k = "inf"
          THEN (IF a.s < b.s THEN -1 ELSE IF a.s > b.s THEN 1 ELSE 0)
          ELSE IF a.k = "inf" THEN a.s
          ELSE -b.s)
    ELSE RatCmp(a, b)

\* the operators + * / and the sign of a - b on operands converted by ToNumber
Add(a, b) == Call("+", ToNumber(a), ToNumber(b), None, None, None)
Mul(a, b) == Call("*", ToNumber(a), ToNumber(b), None, None, None)
Div(a, b) == Call("/", ToNumber(a), ToNumber(b), None, None, None)
Cmp(a, b) == Call("cmp", ToNumber(a), ToNumber(b), None, None, None)
Sub(a, b) == Add(a, Neg(ToNumber(b)))

\* a < b, a <= b, a > b, a >= b, a === b: false when either side is NaN
Lt(a, b) == ~IsNaN(a) /\ ~IsNaN(b) /\ Cmp(a, b) < 0
Le(a, b) == ~IsNaN(a) /\ ~IsNaN(b) /\ Cmp(a, b) <= 0
Gt(a, b) == Lt(b, a)
Ge(a, b) == Le(b, a)
StrictEq(a, b) == a.k # "nan" /\ b.k # "nan" /\ a = b

\* ToBoolean: 0, NaN and undefined are falsy
Truthy(a) == a.k = "inf" \/ (a.k = "num" /\ a.s # 0)

\* a || b
OrElse(a, b) == IF Truthy(a) THEN a ELSE b

\* Math.pow(a, e) for an integer exponent e
PowNumbers(a, e) ==
    IF IsNaN(e) THEN NaN
    ELSE IF e.s = 0 THEN I(1)
    ELSE IF IsNaN(a) THEN NaN
    ELSE IF e.k = "inf"
         THEN LET c == IF a.k = "inf" THEN 1 ELSE IF a.s = 0 THEN -1 ELSE NatCmp(a.n, a.d)
              IN  IF c = 0 THEN NaN
                  ELSE IF (c > 0) = (e.s > 0) THEN Infinity(1) ELSE Zero
    ELSE IF a.k = "inf"
         THEN (IF e.s < 0 THEN Zero
               ELSE Infinity(IF a.s < 0 /\ e.n[1] % 2 = 1 THEN -1 ELSE 1))
    ELSE IF a.s = 0 THEN (IF e.s < 0 THEN Infinity(1) ELSE Zero)
    ELSE LET m == NatToInt(e.n)
             s == IF a.s < 0 /\ m % 2 = 1 THEN -1 ELSE 1
             p == [k |-> "num", s |-> s, n |-> NatPow(a.n, m), d |-> NatPow(a.d, m)]
         IN  IF e.s < 0 THEN RatInv(p) ELSE p

Pow(a, e) == Call("pow", ToNumber(a), ToNumber(e), None, None, None)

\* ---------------------------------------------------------------------
\* Calculations (src/app.js, "Calculations")
\* ---------------------------------------------------------------------
\* calculateMortgage with the zero-interest payment spread over the years
\* instead of the months
calculateMortgagePerYear(principal, annualRate, years) ==
    IF Le(principal, Zero) THEN Zero
    ELSE LET monthlyRate      == Div(Div(annualRate, I(100)), I(12))
             numberOfPayments == Mul(years, I(12))
         IN  IF StrictEq(monthlyRate, Zero) THEN Div(principal, years)
             ELSE LET x == Pow(Add(I(1), monthlyRate), numberOfPayments)
                  IN  Mul(principal, Div(Mul(monthlyRate, x), Sub(x, I(1))))

\* calculateMortgage paying the interest of the first month only
calculateMortgageInterestOnly(principal, annualRate, years) ==
    IF Le(principal, Zero) THEN Zero
    ELSE LET monthlyRate      == Div(Div(annualRate, I(100)), I(12))
             numberOfPayments == Mul(years, I(12))
         IN  IF StrictEq(monthlyRate, Zero) THEN Div(principal, numberOfPayments)
             ELSE Mul(principal, monthlyRate)

calculateMortgage(principal, annualRate, years) ==
    IF Le(principal, Zero) THEN Zero
    ELSE LET monthlyRate      == Div(Div(annualRate, I(100)), I(12))
             numberOfPayments == Mul(years, I(12))
         IN  IF StrictEq(monthlyRate, Zero) THEN Div(principal, numberOfPayments)
             ELSE LET x == Pow(Add(I(1), monthlyRate), numberOfPayments)
                  IN  Mul(principal, Div(Mul(monthlyRate, x), Sub(x, I(1))))

\* getRemainingBalance with the elapsed payments counted in years (p = year)
getRemainingBalanceYearPeriods(principal, annualRate, termYears, year) ==
    LET r == Div(Div(annualRate, I(100)), I(12))
        n == Mul(termYears, I(12))
        p == year
    IN  IF Ge(p, n) THEN Zero
        ELSE IF StrictEq(r, Zero) THEN Sub(principal, Mul(Div(principal, n), p))
        ELSE LET numerator   == Sub(Pow(Add(I(1), r), n), Pow(Add(I(1), r), p))
                 denominator == Sub(Pow(Add(I(1), r), n), I(1))
             IN  Mul(principal, Div(numerator, denominator))

\* getRemainingBalance without the return of 0 once the term has elapsed
getRemainingBalanceNoClamp(principal, annualRate, termYears, year) ==
    LET r == Div(Div(annualRate, I(100)), I(12))
        n == Mul(termYears, I(12))
        p == Mul(year, I(12))
    IN  IF StrictEq(r, Zero) THEN Sub(principal, Mul(Div(principal, n), p))
        ELSE LET numerator   == Sub(Pow(Add(I(1), r), n), Pow(Add(I(1), r), p))
                 denominator == Sub(Pow(Add(I(1), r), n), I(1))
             IN  Mul(principal, Div(numerator, denominator))

getRemainingBalance(principal, annualRate, termYears, year) ==
    LET r == Div(Div(annualRate, I(100)), I(12))
        n == Mul(termYears, I(12))
        p == Mul(year, I(12))
    IN  IF Ge(p, n) THEN Zero
        ELSE IF StrictEq(r, Zero) THEN Sub(principal, Mul(Div(principal, n), p))
        ELSE LET numerator   == Sub(Pow(Add(I(1), r), n), Pow(Add(I(1), r), p))
                 denominator == Sub(Pow(Add(I(1), r), n), I(1))
             IN  Mul(principal, Div(numerator, denominator))


\* validateProperty: the list of errors of the fields of a form
validateProperty(fields) ==
    (IF Le(fields.price, Zero) THEN <<"Price must be positive">> ELSE <<>>)
    \o (IF Lt(fields.downPaymentPercent, Zero) \/ Gt(fields.downPaymentPercent, I(100))
        THEN <<"Down payment must be 0-100%">> ELSE <<>>)
    \o (IF Lt(fields.rate, Zero) THEN <<"Interest rate cannot be negative">> ELSE <<>>)
    \o (IF Lt(fields.term, I(1)) THEN <<"Loan term must be at least 1 year">> ELSE <<>>)
    \o (IF Lt(fields.rent, Zero) THEN <<"Rent cannot be negative">> ELSE <<>>)

\* the loop of calculateProjectedROI after i passes: the price grown by
\* inflation and the cashflow accumulated over the years 1..i
RECURSIVE roiLoop(_, _, _)
roiLoop(prop, s, i) ==
    IF i = 0
    THEN [currentPrice |-> OrElse(prop.afterRenoValue, prop.price), accumulatedCashflow |-> Zero]
    ELSE LET before         == roiLoop(prop, s, i - 1)
             annualMortgage == Mul(prop.monthlyPayment, I(12))
             inflationRate  == Div(s.inflation, I(100))
             monthlyCosts   == OrElse(prop.monthlyCosts, Zero)
             yearlyRent     == Mul(Mul(prop.rent, I(12)), Pow(Add(I(1), inflationRate), I(i - 1)))
             yearlyCosts    == Mul(Mul(monthlyCosts, I(12)), Pow(Add(I(1), inflationRate), I(i - 1)))
             yearlyCashflow == Sub(Sub(yearlyRent, annualMortgage), yearlyCosts)
         IN  [currentPrice |-> Mul(before.currentPrice, Add(I(1), inflationRate)),
              accumulatedCashflow |-> Add(before.accumulatedCashflow, yearlyCashflow)]

\* calculateProjectedROI with the accumulated cashflow left out of the position
calculateProjectedROIEquityOnly(prop, s, targetYear) ==
    IF Le(prop.totalInvested, Zero) THEN Zero
    ELSE LET after         == Call("roiLoop", prop, s, targetYear, None, None)
             remainingLoan == Call("getRemainingBalance", prop.loanAmount, prop.rate, prop.term, I(targetYear), None)
             equity        == Sub(after.currentPrice, remainingLoan)
             profit        == Sub(equity, prop.totalInvested)
         IN  Mul(Div(profit, prop.totalInvested), I(100))

calculateProjectedROI(prop, s, targetYear) ==
    IF Le(prop.totalInvested, Zero) THEN Zero
    ELSE LET after         == Call("roiLoop", prop, s, targetYear, None, None)
             remainingLoan == Call("getRemainingBalance", prop.loanAmount, prop.rate, prop.term, I(targetYear), None)
             equity        == Sub(after.currentPrice, remainingLoan)
             totalPosition == Add(equity, after.accumulatedCashflow)
             profit        == Sub(totalPosition, prop.totalInvested)
         IN  Mul(Div(profit, prop.totalInvested), I(100))

\* the loop of calculateProjectedProfit after i passes
RECURSIVE profitLoop(_, _, _)
\* profitLoop with the rent and the costs of year i inflated i times
profitLoopInflatedFromYearOne(prop, s, i) ==
    IF i = 0
    THEN [currentPrice |-> OrElse(prop.afterRenoValue, prop.price), accumulatedCashflow |-> Zero]
    ELSE LET before         == profitLoop(prop, s, i - 1)
             annualMortgage == Mul(prop.monthlyPayment, I(12))
             inflationRate  == Div(s.inflation, I(100))
             monthlyCosts   == OrElse(prop.monthlyCosts, Zero)
             yearlyRent     == Mul(Mul(prop.rent, I(12)), Pow(Add(I(1), inflationRate), I(i)))
             yearlyCosts    == Mul(Mul(monthlyCosts, I(12)), Pow(Add(I(1), inflationRate), I(i)))
         IN  [currentPrice |-> Mul(before.currentPrice, Add(I(1), inflationRate)),
              accumulatedCashflow |-> Add(before.accumulatedCashflow,
                                          Sub(Sub(yearlyRent, annualMortgage), yearlyCosts))]

profitLoop(prop, s, i) ==
    IF i = 0
    THEN [currentPrice |-> OrElse(prop.afterRenoValue, prop.price), accumulatedCashflow |-> Zero]
    ELSE LET before         == profitLoop(prop, s, i - 1)
             annualMortgage == Mul(prop.monthlyPayment, I(12))
             inflationRate  == Div(s.inflation, I(100))
             monthlyCosts   == OrElse(prop.monthlyCosts, Zero)
             yearlyRent     == Mul(Mul(prop.rent, I(12)), Pow(Add(I(1), inflationRate), I(i - 1)))
             yearlyCosts    == Mul(Mul(monthlyCosts, I(12)), Pow(Add(I(1), inflationRate), I(i - 1)))
         IN  [currentPrice |-> Mul(before.currentPrice, Add(I(1), inflationRate)),
              accumulatedCashflow |-> Add(before.accumulatedCashflow,
                                          Sub(Sub(yearlyRent, annualMortgage), yearlyCosts))]

\* calculateProjectedProfit with a loop that runs one year too far (i from 0)
calculateProjectedProfitFromZero(prop, s, targetYear) ==
    IF Le(prop.totalInvested, Zero) THEN Zero
    ELSE LET after         == Call("profitLoop", prop, s, targetYear + 1, None, None)
             remainingLoan == Call("getRemainingBalance", prop.loanAmount, prop.rate, prop.term, I(targetYear), None)
             equity        == Sub(after.currentPrice, remainingLoan)
         IN  Sub(Add(equity, after.accumulatedCashflow), prop.totalInvested)

calculateProjectedProfit(prop, s, targetYear) ==
    IF Le(prop.totalInvested, Zero) THEN Zero
    ELSE LET after         == Call("profitLoop", prop, s, targetYear, None, None)
             remainingLoan == Call("getRemainingBalance", prop.loanAmount, prop.rate, prop.term, I(targetYear), None)
             equity        == Sub(after.currentPrice, remainingLoan)
         IN  Sub(Add(equity, after.accumulatedCashflow), prop.totalInvested)

\* recalculateProperty with the transfer tax left out of the total
recalculatePropertyNoTax(prop, s) ==
    LET price          == prop.price
        afterRenoValue == IF ~Truthy(prop.afterRenoValue) THEN price ELSE prop.afterRenoValue
        monthlyCosts   == IF ~Truthy(prop.monthlyCosts) THEN Zero ELSE prop.monthlyCosts
        lawyer         == Mul(price, Div(s.lawyerRate, I(100)))
        downPayment    == Mul(price, Div(prop.downPaymentPercent, I(100)))
        totalInvested  == Add(Add(downPayment, prop.renoCost), lawyer)
        loanAmount     == Sub(price, downPayment)
        monthlyPayment == Call("calculateMortgage", loanAmount, prop.rate, prop.term, None, None)
        cashflow       == Sub(Sub(prop.rent, monthlyPayment), monthlyCosts)
    IN  [prop EXCEPT !.afterRenoValue = afterRenoValue, !.monthlyCosts = monthlyCosts,
                     !.downPayment = downPayment, !.totalInvested = totalInvested,
                     !.loanAmount = loanAmount, !.monthlyPayment = monthlyPayment,
                     !.cashflow = cashflow]

\* recalculateProperty with the cashflow taken from the payment stored before
recalculatePropertyStalePayment(prop, s) ==
    LET price          == prop.price
        afterRenoValue == IF ~Truthy(prop.afterRenoValue) THEN price ELSE prop.afterRenoValue
        monthlyCosts   == IF ~Truthy(prop.monthlyCosts) THEN Zero ELSE prop.monthlyCosts
        tax            == Mul(price, Div(s.taxRate, I(100)))
        lawyer         == Mul(price, Div(s.lawyerRate, I(100)))
        downPayment    == Mul(price, Div(prop.downPaymentPercent, I(100)))
        totalInvested  == Add(Add(Add(downPayment, prop.renoCost), tax), lawyer)
        loanAmount     == Sub(price, downPayment)
        monthlyPayment == Call("calculateMortgage", loanAmount, prop.rate, prop.term, None, None)
        cashflow       == Sub(Sub(prop.rent, prop.monthlyPayment), monthlyCosts)
    IN  [prop EXCEPT !.afterRenoValue = afterRenoValue, !.monthlyCosts = monthlyCosts,
                     !.downPayment = downPayment, !.totalInvested = totalInvested,
                     !.loanAmount = loanAmount, !.monthlyPayment = monthlyPayment,
                     !.cashflow = cashflow]

\* recalculateProperty that also brings the down payment percent under 100
recalculatePropertyClampsPercent(prop, s) ==
    LET price          == prop.price
        percent        == IF Gt(prop.downPaymentPercent, I(100)) THEN I(100)
                          ELSE prop.downPaymentPercent
        afterRenoValue == IF ~Truthy(prop.afterRenoValue) THEN price ELSE prop.afterRenoValue
        monthlyCosts   == IF ~Truthy(prop.monthlyCosts) THEN Zero ELSE prop.monthlyCosts
        tax            == Mul(price, Div(s.taxRate, I(100)))
        lawyer         == Mul(price, Div(s.lawyerRate, I(100)))
        downPayment    == Mul(price, Div(percent, I(100)))
        totalInvested  == Add(Add(Add(downPayment, prop.renoCost), tax), lawyer)
        loanAmount     == Sub(price, downPayment)
        monthlyPayment == Call("calculateMortgage", loanAmount, prop.rate, prop.term, None, None)
        cashflow       == Sub(Sub(prop.rent, monthlyPayment), monthlyCosts)
    IN  [prop EXCEPT !.downPaymentPercent = percent,
                     !.afterRenoValue = afterRenoValue, !.monthlyCosts = monthlyCosts,
                     !.downPayment = downPayment, !.totalInvested = totalInvested,
                     !.loanAmount = loanAmount, !.monthlyPayment = monthlyPayment,
                     !.cashflow = cashflow]

\* recalculateProperty under the settings s (the global the source reads)
\* recalculateProperty defaulting the fields only when they are missing
recalculatePropertyKeepsZero(prop, s) ==
    LET price              == prop.price
        rent               == prop.rent
        downPaymentPercent == prop.downPaymentPercent
        renoCost           == prop.renoCost
        rate               == prop.rate
        term               == prop.term
        afterRenoValue == IF prop.afterRenoValue.k = "undef" THEN price ELSE prop.afterRenoValue
        monthlyCosts   == IF prop.monthlyCosts.k = "undef" THEN Zero ELSE prop.monthlyCosts
        tax            == Mul(price, Div(s.taxRate, I(100)))
        lawyer         == Mul(price, Div(s.lawyerRate, I(100)))
        downPayment    == Mul(price, Div(downPaymentPercent, I(100)))
        totalInvested  == Add(Add(Add(downPayment, renoCost), tax), lawyer)
        loanAmount     == Sub(price, downPayment)
        monthlyPayment == Call("calculateMortgage", loanAmount, rate, term, None, None)
        cashflow       == Sub(Sub(rent, monthlyPayment), monthlyCosts)
    IN  [prop EXCEPT !.afterRenoValue = afterRenoValue, !.monthlyCosts = monthlyCosts,
                     !.downPayment = downPayment, !.totalInvested = totalInvested,
                     !.loanAmount = loanAmount, !.monthlyPayment = monthlyPayment,
                     !.cashflow = cashflow]

recalculateProperty(prop, s) ==
    LET price              == prop.price
        rent               == prop.rent
        downPaymentPercent == prop.downPaymentPercent
        renoCost           == prop.renoCost
        rate               == prop.rate
        term               == prop.term
        afterRenoValue == IF ~Truthy(prop.afterRenoValue) THEN price ELSE prop.afterRenoValue
        monthlyCosts   == IF ~Truthy(prop.monthlyCosts) THEN Zero ELSE prop.monthlyCosts
        tax            == Mul(price, Div(s.taxRate, I(100)))
        lawyer         == Mul(price, Div(s.lawyerRate, I(100)))
        downPayment    == Mul(price, Div(downPaymentPercent, I(100)))
        totalInvested  == Add(Add(Add(downPayment, renoCost), tax), lawyer)
        loanAmount     == Sub(price, downPayment)
        monthlyPayment == Call("calculateMortgage", loanAmount, rate, term, None, None)
        cashflow       == Sub(Sub(rent, monthlyPayment), monthlyCosts)
    IN  [prop EXCEPT !.afterRenoValue = afterRenoValue, !.monthlyCosts = monthlyCosts,
                     !.downPayment = downPayment, !.totalInvested = totalInvested,
                     !.loanAmount = loanAmount, !.monthlyPayment = monthlyPayment,
                     !.cashflow = cashflow]

\* a property object before recalculateProperty has filled its derived fields
newProp(id, name, price, rent, renoCost, afterRenoValue, monthlyCosts, downPaymentPercent, rate, term) ==
    [id |-> id, name |-> name, price |-> price, rent |-> rent, renoCost |-> renoCost,
     afterRenoValue |-> afterRenoValue, monthlyCosts |-> monthlyCosts,
     downPaymentPercent |-> downPaymentPercent, rate |-> rate, term |-> term,
     isEditing |-> FALSE, isShared |-> FALSE,
     downPayment |-> Undefined, totalInvested |-> Undefined, loanAmount |-> Undefined,
     monthlyPayment |-> Undefined, cashflow |-> Undefined]

\* the value the equity chart loop holds at year i
RECURSIVE equityCurrentValue(_, _, _)
equityCurrentValue(prop, s, i) ==
    IF i = 0 THEN OrElse(prop.afterRenoValue, prop.price)
    ELSE Mul(equityCurrentValue(prop, s, i - 1), Add(I(1), Div(s.inflation, I(100))))

\* equityData with the value multiplied before the point is pushed
equityDataCompoundedFirst(prop, s, i) ==
    Sub(Call("equityCurrentValue", prop, s, i + 1, None, None),
        Call("getRemainingBalance", prop.loanAmount, prop.rate, prop.term, I(i), None))

\* the point of the equity chart at year i
equityData(prop, s, i) ==
    Sub(Call("equityCurrentValue", prop, s, i, None, None),
        Call("getRemainingBalance", prop.loanAmount, prop.rate, prop.term, I(i), None))

\* addProperty up to its validation: the errors it reports for the form
\* values f, and the property it creates under the id and the settings s
addPropertyForm(f, id, s) ==
    LET priceMillions         == f.pValue
        downPaymentPercent    == f.pDownPercent
        renoMillions          == OrElse(f.pReno, Zero)
        afterRenoMillions     == OrElse(f.pAfterRenoValue, Zero)
        monthlyCostsThousands == OrElse(f.pMonthlyCosts, Zero)
        rate                  == f.pRate
        term                  == f.pTerm
        rentThousands         == f.pRent
        renoCost       == Mul(renoMillions, I(1000000))
        monthlyCosts   == Mul(monthlyCostsThousands, I(1000))
        Submit(price, rent) ==
            LET afterRenoValue == IF Gt(afterRenoMillions, Zero)
                                  THEN Mul(afterRenoMillions, I(1000000)) ELSE price
            IN  [errors  |-> Call("validateProperty", [price |-> price,
                                 downPaymentPercent |-> downPaymentPercent,
                                 rate |-> rate, term |-> term, rent |-> rent], None, None, None, None),
                 created |-> Call("recalculateProperty",
                                 newProp(id, f.name, price, rent, renoCost, afterRenoValue,
                                         monthlyCosts, downPaymentPercent, rate, term), s, None, None, None)]
    IN  Submit(Mul(priceMillions, I(1000000)), Mul(rentThousands, I(1000)))

\* the save branch of toggleEdit up to its validation: the errors it reports
\* for the row values e of the property prop, and the property as saved
\* under the settings s
toggleEditForm(prop, e, s) ==
    LET newDown  == OrElse(e.down, Zero)
        newReno  == Mul(OrElse(e.reno, Zero), I(1000000))
        newRate  == OrElse(e.rate, Zero)
        newCosts == Mul(OrElse(e.costs, Zero), I(1000))
        Save(newPrice, newRent) ==
            LET newAfterReno == IF Gt(OrElse(e.afterreno, Zero), Zero)
                                THEN Mul(e.afterreno, I(1000000)) ELSE newPrice
            IN  [errors |-> Call("validateProperty", [price |-> newPrice,
                                downPaymentPercent |-> newDown, rate |-> newRate,
                                term |-> prop.term, rent |-> newRent], None, None, None, None),
                 saved  |-> Call("recalculateProperty",
                                [prop EXCEPT !.name = e.name, !.price = newPrice,
                                             !.downPaymentPercent = newDown,
                                             !.renoCost = newReno, !.rate = newRate,
                                             !.rent = newRent,
                                             !.afterRenoValue = newAfterReno,
                                             !.monthlyCosts = newCosts], s, None, None, None)]
    IN  Save(Mul(OrElse(e.price, Zero), I(1000000)), Mul(OrElse(e.rent, Zero), I(1000)))

\* `${a}` of a template literal: the text of a value, a decimal text being
\* given by the number it denotes
String(a) ==
    CASE a.k = "num"   -> [text |-> "decimal", value |-> a]
      [] a.k = "nan"   -> [text |-> "NaN", value |-> Zero]
      [] a.k = "undef" -> [text |-> "undefined", value |-> Zero]
      [] a.k = "null"  -> [text |-> "null", value |-> Zero]
      [] a.k = "inf"   -> [text |-> IF a.s < 0 THEN "-Infinity" ELSE "Infinity", value |-> Zero]

\* parseFloat of a text: a decimal text and the two infinities are read,
\* any other text is NaN
parseFloat(t) ==
    CASE t.text = "decimal"   -> t.value
      [] t.text = "Infinity"  -> Infinity(1)
      [] t.text = "-Infinity" -> Infinity(-1)
      [] OTHER                -> NaN

\* encodeURIComponent and decodeURIComponent of a name: the separators of
\* the share text are escaped, so a name is one field whatever it holds
encodeURIComponent(name) == [escaped |-> name]
decodeURIComponent(field) == field.escaped

\* encodeShareData: the text btoa is given, as the parts `;` separates, the
\* first split at `,` and the others at `|`
encodeShareData(s, props) ==
    LET settingsPart == <<String(s.taxRate), String(s.lawyerRate), String(s.inflation)>>
        propPart(p) ==
            LET name       == encodeURIComponent(p.name)
                priceM     == Div(p.price, I(1000000))
                rentK      == Div(p.rent, I(1000))
                renoM      == Div(p.renoCost, I(1000000))
                afterRenoM == Div(OrElse(p.afterRenoValue, p.price), I(1000000))
                costsK     == Div(OrElse(p.monthlyCosts, Zero), I(1000))
            IN  <<name, String(priceM), String(rentK), String(renoM),
                  String(p.downPaymentPercent), String(p.rate), String(p.term),
                  String(afterRenoM), String(costsK)>>
    IN  [atob |-> TRUE, parts |-> <<settingsPart>> \o [i \in DOMAIN props |-> propPart(props[i])]]

\* decodeShareData: <<>> for null; a decoded property has the offset i of
\* its id as id (Date.now() + i)
decodeShareDataParts(encoded) ==
    IF ~encoded.atob THEN <<>>
    ELSE LET parts == encoded.parts
             settingsFields == parts[1]
             decodedProp(i) ==
                 LET fields == parts[i + 1]
                     price  == Mul(parseFloat(fields[2]), I(1000000))
                 IN  newProp(i, decodeURIComponent(fields[1]), price,
                             Mul(parseFloat(fields[3]), I(1000)),
                             Mul(parseFloat(fields[4]), I(1000000)),
                             IF Len(fields) >= 8 THEN Mul(parseFloat(fields[8]), I(1000000))
                             ELSE price,
                             IF Len(fields) >= 9 THEN Mul(parseFloat(fields[9]), I(1000))
                             ELSE Zero,
                             parseFloat(fields[5]), parseFloat(fields[6]), parseFloat(fields[7]))
         IN  IF Len(parts) < 1 THEN <<>>
             ELSE IF Len(settingsFields) # 3 THEN <<>>
             ELSE IF \E i \in 2..Len(parts) : Len(parts[i]) < 7 THEN <<>>
             ELSE <<[settings   |-> [taxRate    |-> parseFloat(settingsFields[1]),
                                     lawyerRate |-> parseFloat(settingsFields[2]),
                                     inflation  |-> parseFloat(settingsFields[3])],
                     properties |-> [i \in 1..(Len(parts) - 1) |-> decodedProp(i)]]>>

\* formatHUF: the amount shown, num rounded to an integer (halves away
\* from zero); what is no finite number is shown as it is
formatHUF(num) ==
    IF num.k # "num" \/ num.s = 0 THEN ToNumber(num)
    ELSE LET Shown(n) == IF n = <<>> THEN Zero
                         ELSE [k |-> "num", s |-> num.s, n |-> n, d |-> <<1>>]
         IN  Shown(NatDiv(NatAdd(NatMul(num.n, <<2>>), num.d), NatMul(num.d, <<2>>)))

\* the functions by name
Call(f, a, b, c, d, e) ==
    CASE f = "NatCmp" -> NatCmpDef(a, b)
      [] f = "NatCarry" -> NatCarryDef(a)
      [] f = "NatAdd" -> NatAddDef(a, b)
      [] f = "NatSub" -> NatSubDef(a, b)
      [] f = "NatMulLimb" -> NatMulLimbDef(a, b)
      [] f = "NatMul" -> NatMulDef(a, b)
      [] f = "NatPow" -> NatPowDef(a, b)
      [] f = "NatHalf" -> NatHalfDef(a)
      [] f = "NatQuotLimb" -> NatQuotLimbDef(a, b)
      [] f = "NatDivRange" -> NatDivRangeDef(a, b, c, d, e)
      [] f = "NatGcdStep" -> NatGcdStepDef(a)
      [] f = "NatGcdRun" -> NatGcdRunDef(a, b)
      [] f = "Rat" -> RatDef(a, b, c)
      [] f = "RatCmp" -> RatCmpDef(a, b)
      [] f = "RatAdd" -> RatAddDef(a, b)
      [] f = "RatMul" -> RatMulDef(a, b)
      [] f = "divmod" -> NatLongDivision(a, b)
      [] f = "gcd" -> NatGcdReduced(a, b)
      [] f = "*" -> MulNumbers(a, b)
      [] f = "+" -> AddNumbers(a, b)
      [] f = "/" -> DivNumbers(a, b)
      [] f = "cmp" -> CmpNumbers(a, b)
      [] f = "pow" -> PowNumbers(a, b)
      [] f = "roiLoop" -> roiLoop(a, b, c)
      [] f = "profitLoop" -> profitLoop(a, b, c)
      [] f = "equityCurrentValue" -> equityCurrentValue(a, b, c)
      [] f = "calculateMortgage" -> calculateMortgage(a, b, c)
      [] f = "getRemainingBalance" -> getRemainingBalance(a, b, c, d)
      [] f = "validateProperty" -> validateProperty(a)
      [] f = "recalculateProperty" -> recalculateProperty(a, b)
      [] f = "calculateProjectedROI" -> calculateProjectedROI(a, b, c)
      [] f = "calculateProjectedProfit" -> calculateProjectedProfit(a, b, c)
      [] f = "equityData" -> equityData(a, b, c)
      [] f = "addPropertyForm" -> addPropertyForm(a, b, c)
      [] f = "toggleEditForm" -> toggleEditForm(a, b, c)
      [] f = "formatHUF" -> formatHUF(a)
      [] f = "encodeShareData" -> encodeShareData(a, b)
      [] f = "decodeShareData" -> decodeShareDataParts(a)

\* ---------------------------------------------------------------------
\* State
\* ---------------------------------------------------------------------
VARIABLES
    properties,         \* the displayed list (let properties)
    settings,           \* taxRate, lawyerRate, inflation (let settings)
    isSharedView,       \* let isSharedView
    sharedProperties,   \* let sharedProperties
    propertyIdToDelete, \* let propertyIdToDelete (0 for null)
    storedSettings,     \* localStorage property_calculator_settings: <<>> or <<value>>
    storedData,         \* localStorage property_calculator_data: <<>> or <<list>>
    previewWithMyData,  \* the checkbox previewWithMyData of the shared banner
    clipboard,          \* the link shareData copied: <<>> or <<the text of its s parameter>>
    shown,              \* the monthly payment in the table row: <<>> or <<the amount shown>>
    recalculated,       \* positions of the list recalculateProperty has been applied to
    charts,             \* the data series renderCharts built (<<>> before it ran)
    loan,               \* loanAmount, rate, term and monthlyPayment of one property
    balances,           \* remaining loan at chart years 0, 1, ... (equity chart loop)
    paid,               \* monthly payments deducted in the reference schedule
    simulated           \* balance of the reference schedule after paid payments

appVars   == <<properties, settings>>
pageVars  == <<isSharedView, sharedProperties, propertyIdToDelete, storedSettings,
               storedData, previewWithMyData, clipboard, shown>>
projVars  == <<recalculated, charts>>
amortVars == <<loan, balances, paid, simulated>>
vars      == <<properties, settings, isSharedView, sharedProperties, propertyIdToDelete,
               storedSettings, storedData, previewWithMyData, clipboard, shown,
               recalculated, charts, loan, balances, paid, simulated>>

\* the values of the page variables in the specifications of a single calculation
InitPage ==
    /\ isSharedView = FALSE
    /\ sharedProperties = <<>>
    /\ propertyIdToDelete = 0
    /\ storedSettings = <<>>
    /\ storedData = <<>>
    /\ previewWithMyData = FALSE
    /\ clipboard = <<>>
    /\ shown = <<>>

\* i / 2 for an odd i > 0
Halves(i) == [k |-> "num", s |-> 1, n |-> NatOfInt(i), d |-> <<2>>]

defaultSettings == [taxRate |-> I(4), lawyerRate |-> Halves(1), inflation |-> Halves(7)]

\* ---------------------------------------------------------------------
\* Amortization of one loan: the schedule the equity chart computes with
\* getRemainingBalance, next to a month-by-month reference schedule
\* ---------------------------------------------------------------------
MaxTerm == 2

\* years on the chart axis (preferences.chartYears): beyond the longest term
chartYears == MaxTerm + 1

LoanPrincipals == {I(-1000000), Zero, I(1000000), I(40000000)}
LoanRates      == {Zero, Div(I(13), I(2)), I(12), I(30)}

\* term of the loan as an integer
termYears == NatToInt(loan.term.n)

InitAmort ==
    /\ properties = <<>>
    /\ settings = defaultSettings
    /\ InitPage
    /\ recalculated = {}
    /\ charts = <<>>
    /\ loan \in {[loanAmount |-> P, rate |-> R, term |-> I(T),
                  monthlyPayment |-> Call("calculateMortgage", P, R, I(T), None, None)] :
                     P \in LoanPrincipals, R \in LoanRates, T \in 1..MaxTerm}
    /\ balances = <<>>
    /\ paid = 0
    /\ simulated = loan.loanAmount

\* one pass of the equity chart loop: the remaining loan at the next year
ChartYear ==
    /\ Len(balances) <= chartYears
    /\ paid = 12 * Len(balances) \/ paid = 12 * termYears
    /\ balances' = Append(balances,
                          Call("getRemainingBalance", loan.loanAmount, loan.rate, loan.term, I(Len(balances)), None))
    /\ UNCHANGED <<loan, paid, simulated, appVars, pageVars, projVars>>

\* one month of the reference schedule: interest accrues, the payment is deducted
PayMonth ==
    /\ paid < 12 * Len(balances)
    /\ paid < 12 * termYears
    /\ simulated' = Sub(Mul(simulated, Add(I(1), Div(Div(loan.rate, I(100)), I(12)))),
                        loan.monthlyPayment)
    /\ paid' = paid + 1
    /\ UNCHANGED <<loan, balances, appVars, pageVars, projVars>>

NextAmort == ChartYear \/ PayMonth

SpecAmort == InitAmort /\ [][NextAmort]_vars

\* ---------------------------------------------------------------------
\* Properties of the amortization schedule (SpecAmort)
\* ---------------------------------------------------------------------

\* C2: for a principal > 0 and a rate in 0..30, the remaining balance at
\* every year k in 0..term equals the balance of the reference schedule
\* after k * 12 monthly steps balance * (1 + r) - monthlyPayment from the
\* principal, and the reference balance is 0 after the final payment.
C2_BalanceEqualsSchedule ==
    (Gt(loan.loanAmount, Zero) /\ Ge(loan.rate, Zero) /\ Le(loan.rate, I(30)))
        => /\ \A k \in 0..termYears :
                  (paid = 12 * k /\ Len(balances) > k) => balances[k + 1] = simulated
           /\ paid = 12 * termYears => simulated = Zero

\* a loan at 6.5% over two years or more, paid off month by month, with its
\* chart balance of the final year tabulated
C2_Witness ==
    /\ Gt(loan.loanAmount, Zero)
    /\ loan.rate = Div(I(13), I(2))
    /\ termYears >= 2
    /\ paid = 12 * termYears
    /\ Len(balances) > termYears

\* C3: for a rate >= 0 the remaining balance never rises from one year to a
\* later one, and it is never negative.
C3_NonIncreasingNonNegative ==
    Ge(loan.rate, Zero)
        => /\ \A i, j \in 1..Len(balances) :
                  i <= j => Le(balances[j], balances[i])
           /\ \A i \in 1..Len(balances) : Ge(balances[i], Zero)

\* C4: at a year at or beyond the term (year * 12 >= termYears * 12) the
\* remaining balance is exactly 0, whatever the principal and the rate.
C4_ZeroFromTerm ==
    \A i \in 1..Len(balances) :
        (i - 1) * 12 >= termYears * 12 => balances[i] = Zero

\* a negative principal at a rate above 0, charted past the end of the term
C4_Witness ==
    /\ Lt(loan.loanAmount, Zero)
    /\ Gt(loan.rate, Zero)
    /\ Len(balances) > termYears + 1

\* C5: for a principal of 0 or less the monthly payment is 0 and the
\* remaining balance is 0 at every year.
C5_NoLoanNoBalance ==
    Le(loan.loanAmount, Zero)
        => /\ loan.monthlyPayment = Zero
           /\ \A i \in 1..Len(balances) : balances[i] = Zero

\* C14 as stated: with an interest rate of 0 the monthly payment is
\* principal / (termYears * 12) and the remaining balance after k years is
\* principal * (1 - k / termYears) for every k in 0..termYears.
C14_ZeroRateStraightLine ==
    loan.rate = Zero
        => /\ loan.monthlyPayment = Div(loan.loanAmount, I(termYears * 12))
           /\ \A k \in 0..termYears :
                  Len(balances) > k
                      => balances[k + 1]
                             = Mul(loan.loanAmount, Sub(I(1), Div(I(k), I(termYears))))

\* C14 amended: with an interest rate of 0 and a principal of 0 or more the
\* monthly payment is principal / (termYears * 12) and the remaining balance
\* after k years is principal * (1 - k / termYears) for every k in
\* 0..termYears.
C14_ZeroRateStraightLineOfLoan ==
    (loan.rate = Zero /\ Ge(loan.loanAmount, Zero))
        => /\ loan.monthlyPayment = Div(loan.loanAmount, I(termYears * 12))
           /\ \A k \in 0..termYears :
                  Len(balances) > k
                      => balances[k + 1]
                             = Mul(loan.loanAmount, Sub(I(1), Div(I(k), I(termYears))))

\* a zero-interest loan over two years or more with every year of its term
\* charted, half paid after the first year
C14_Witness ==
    /\ loan.rate = Zero
    /\ Gt(loan.loanAmount, Zero)
    /\ termYears >= 2
    /\ Len(balances) > termYears
    /\ Gt(balances[2], Zero)
    /\ Lt(balances[2], loan.loanAmount)

\* ---------------------------------------------------------------------
\* The monthly payment of a table row (SpecPayment)
\* ---------------------------------------------------------------------
\* loans the table shows: those of SpecAmort and two over 20 years
quotedLoans ==
    {<<P, R, T>> : P \in LoanPrincipals, R \in LoanRates, T \in 1..MaxTerm}
        \cup {<<I(40000000), Halves(13), 20>>, <<I(40000000), Zero, 20>>}

InitPayment ==
    /\ properties = <<>>
    /\ settings = defaultSettings
    /\ InitPage
    /\ recalculated = {}
    /\ charts = <<>>
    /\ loan \in {[loanAmount |-> q[1], rate |-> q[2], term |-> I(q[3]),
                  monthlyPayment |-> Undefined] : q \in quotedLoans}
    /\ balances = <<>>
    /\ paid = 0
    /\ simulated = Zero

\* the monthlyPayment recalculateProperty assigns
PayMonthly ==
    /\ loan.monthlyPayment = Undefined
    /\ loan' = [loan EXCEPT !.monthlyPayment =
                   Call("calculateMortgage", loan.loanAmount, loan.rate, loan.term, None, None)]
    /\ UNCHANGED <<balances, paid, simulated, appVars, pageVars, projVars>>

\* the mortgage cell of the table row
ShowPayment ==
    /\ loan.monthlyPayment # Undefined
    /\ shown = <<>>
    /\ shown' = <<Call("formatHUF", loan.monthlyPayment, None, None, None, None)>>
    /\ UNCHANGED <<isSharedView, sharedProperties, propertyIdToDelete, storedSettings,
                   storedData, previewWithMyData, clipboard, appVars, projVars, amortVars>>

NextPayment == PayMonthly \/ ShowPayment

SpecPayment == InitPayment /\ [][NextPayment]_vars

\* the loan of 40,000,000 at 6.5% over 20 years, its payment shown
scenarioShown ==
    /\ loan.loanAmount = I(40000000)
    /\ loan.rate = Halves(13)
    /\ loan.term = I(20)
    /\ shown # <<>>

\* C19: the monthly payment of a loan of 40,000,000 at 6.5% over 20 years
\* is 297,915 to the nearest integer.
C19_ScenarioPayment == scenarioShown => shown[1] = I(297915)

\* C19, amended: the monthly payment of a loan of 40,000,000 at 6.5% over
\* 20 years is 298,229 to the nearest integer.
C19_ScenarioPaymentOfFormula == scenarioShown => shown[1] = I(298229)

C19_Witness == scenarioShown /\ Gt(loan.monthlyPayment, I(298229))

\* ---------------------------------------------------------------------
\* Recalculation and projection of a list of two properties (SpecProj):
\* recalculateProperty applied to one property at a time, in any order,
\* then the chart series built from the recalculated list
\* ---------------------------------------------------------------------

\* the loan of the states of SpecProj, which has no amortization table
noLoan == [loanAmount |-> Zero, rate |-> Zero, term |-> I(1), monthlyPayment |-> Zero]

\* property objects as a file, a share link or the form supplies them
inputProperties ==
    { newProp(1, "flat", I(50000000), I(250000), Zero, Undefined, Undefined,
              I(20), Div(I(13), I(2)), I(2)),
      newProp(1, "studio", I(1000000), I(10000), I(-45000), I(1200000), I(2000),
              Zero, Zero, I(1)),
      newProp(1, "garage", I(1000000), I(8000), I(500000), I(2000000), I(1000),
              I(100), I(12), I(1)),
      newProp(1, "ruin", I(2000000), Zero, I(-3000000), I(1500000), Zero,
              I(50), I(30), I(2)),
      newProp(1, "plot", I(1000000), I(5000), Zero, Zero, Zero,
              I(120), I(5), I(1)) }

inputSettings ==
    { defaultSettings,
      [taxRate |-> Zero, lawyerRate |-> Zero, inflation |-> Zero],
      [taxRate |-> I(10), lawyerRate |-> I(1), inflation |-> I(5)] }

InitProj ==
    /\ properties \in {<<p, [q EXCEPT !.id = 2]>> :
                          p \in inputProperties,
                          q \in {r \in inputProperties : r.name \in {"studio", "plot"}}}
    /\ settings \in inputSettings
    /\ InitPage
    /\ recalculated = {}
    /\ charts = <<>>
    /\ loan = noLoan
    /\ balances = <<>>
    /\ paid = 0
    /\ simulated = Zero

\* recalculateProperty(properties[i])
Recalculate(i) ==
    /\ charts = <<>>
    /\ properties' = [properties EXCEPT
                         ![i] = Call("recalculateProperty", @, settings, None, None, None)]
    /\ recalculated' = recalculated \cup {i}
    /\ UNCHANGED <<settings, charts, pageVars, amortVars>>

\* renderCharts: for each property the ROI, profit and equity series over
\* the years 0..chartYears (the series are sequences: year y is element y + 1)
RenderCharts ==
    /\ recalculated = DOMAIN properties
    /\ charts = <<>>
    /\ charts' = [i \in DOMAIN properties |->
                     [roi    |-> [y \in 1..(chartYears + 1) |->
                                     Call("calculateProjectedROI", properties[i], settings, y - 1, None, None)],
                      profit |-> [y \in 1..(chartYears + 1) |->
                                     Call("calculateProjectedProfit", properties[i], settings, y - 1, None, None)],
                      equity |-> [y \in 1..(chartYears + 1) |->
                                     Call("equityData", properties[i], settings, y - 1, None, None)]]]
    /\ UNCHANGED <<properties, settings, recalculated, pageVars, amortVars>>

NextProj == (\E i \in DOMAIN properties : Recalculate(i)) \/ RenderCharts

SpecProj == InitProj /\ [][NextProj]_vars

\* ---------------------------------------------------------------------
\* Properties of recalculateProperty and of the projections (SpecProj)
\* ---------------------------------------------------------------------

\* C6: after recalculateProperty, downPayment = price * downPaymentPercent / 100,
\* totalInvested = downPayment + renoCost + price * taxRate / 100
\* + price * lawyerRate / 100, loanAmount = price - downPayment,
\* cashflow = rent - monthlyPayment - monthlyCosts and
\* downPayment + loanAmount = price; a price of 50,000,000 with 20% down, no
\* renovation, 4% tax and 0.5% lawyer fee gives a down payment of 10,000,000,
\* a loan of 40,000,000 and 12,250,000 invested.
C6_DerivedFields ==
    \A i \in recalculated :
        LET p == properties[i]
        IN  /\ p.downPayment = Div(Mul(p.price, p.downPaymentPercent), I(100))
            /\ p.totalInvested =
                   Add(Add(Add(p.downPayment, p.renoCost),
                           Div(Mul(p.price, settings.taxRate), I(100))),
                       Div(Mul(p.price, settings.lawyerRate), I(100)))
            /\ p.loanAmount = Sub(p.price, p.downPayment)
            /\ p.cashflow = Sub(Sub(p.rent, p.monthlyPayment), p.monthlyCosts)
            /\ Add(p.downPayment, p.loanAmount) = p.price
            /\ (/\ p.price = I(50000000)
                /\ p.downPaymentPercent = I(20)
                /\ p.renoCost = Zero
                /\ settings.taxRate = I(4)
                /\ settings.lawyerRate = Div(I(1), I(2)))
               => /\ p.downPayment = I(10000000)
                  /\ p.loanAmount = I(40000000)
                  /\ p.totalInvested = I(12250000)

\* the property of 50,000,000 recalculated under 4% tax and 0.5% lawyer fee
C6_Witness ==
    \E i \in recalculated :
        /\ properties[i].price = I(50000000)
        /\ properties[i].downPaymentPercent = I(20)
        /\ properties[i].renoCost = Zero
        /\ settings.taxRate = I(4)
        /\ settings.lawyerRate = Div(I(1), I(2))
        /\ properties[i].totalInvested = I(12250000)

\* C7: recalculateProperty applied to a valid property it has already been
\* applied to, under the same settings, gives the same record, field by
\* field, the filled-in afterRenoValue and monthlyCosts included.
C7_Idempotent ==
    \A i \in recalculated :
        validateProperty(properties[i]) = <<>>
            => recalculateProperty(properties[i], settings) = properties[i]

\* a valid recalculated property whose afterRenoValue and monthlyCosts were
\* missing and have been filled in
C7_Witness ==
    \E i \in recalculated :
        /\ validateProperty(properties[i]) = <<>>
        /\ properties[i].name = "flat"
        /\ properties[i].afterRenoValue = properties[i].price
        /\ properties[i].monthlyCosts = Zero
        /\ IsNum(properties[i].cashflow)

rawFields == {"id", "name", "price", "rent", "renoCost", "downPaymentPercent", "rate",
              "term", "isEditing", "isShared"}

\* C8: a recalculation of one property changes none of its raw fields nor
\* its id, neither the settings nor any other property, and it leaves what
\* a recalculation of any other property gives as it was (so the order of
\* the recalculations does not matter).
C8_Frame ==
    [][ (properties' # properties)
            => /\ settings' = settings
               /\ \E i \in DOMAIN properties :
                      /\ \A f \in rawFields : properties'[i][f] = properties[i][f]
                      /\ \A j \in DOMAIN properties \ {i} :
                             /\ properties'[j] = properties[j]
                             /\ recalculateProperty(properties'[j], settings')
                                    = recalculateProperty(properties[j], settings) ]_vars

\* both properties recalculated, the one with the down payment of 120% among them
C8_Witness ==
    /\ recalculated = DOMAIN properties
    /\ \E i \in recalculated : Gt(properties[i].downPaymentPercent, I(100))
    /\ \E i \in recalculated : properties[i].afterRenoValue = properties[i].price

\* C9: when totalInvested is 0 or less, every projected value of every year
\* is 0: ROI, profit and the equity series of the chart.
C9_AllZeroWithoutInvestment ==
    \A i \in DOMAIN charts :
        Le(properties[i].totalInvested, Zero)
            => \A y \in 1..(chartYears + 1) :
                   /\ charts[i].roi[y] = Zero
                   /\ charts[i].profit[y] = Zero
                   /\ charts[i].equity[y] = Zero

\* C10 as stated: for every valid property the projection at year 0 has
\* equity = afterRenoValue - loanAmount and profit = equity - totalInvested
\* (the cumulative cashflow being 0).
C10_YearZero ==
    \A i \in DOMAIN charts :
        validateProperty(properties[i]) = <<>>
            => /\ charts[i].equity[1] = Sub(properties[i].afterRenoValue, properties[i].loanAmount)
               /\ charts[i].profit[1] = Sub(charts[i].equity[1], properties[i].totalInvested)

\* C10 amended: for every valid property with totalInvested > 0 the
\* projection at year 0 has cumulative cashflow 0,
\* equity = afterRenoValue - loanAmount and profit = equity - totalInvested.
C10_YearZeroInvested ==
    \A i \in DOMAIN charts :
        (validateProperty(properties[i]) = <<>> /\ Gt(properties[i].totalInvested, Zero))
            => /\ profitLoop(properties[i], settings, 0).accumulatedCashflow = Zero
               /\ charts[i].equity[1] = Sub(properties[i].afterRenoValue, properties[i].loanAmount)
               /\ charts[i].profit[1] = Sub(charts[i].equity[1], properties[i].totalInvested)

\* the charts of a valid property with a loan, rent and money invested
C10_Witness ==
    \E i \in DOMAIN charts :
        /\ validateProperty(properties[i]) = <<>>
        /\ Gt(properties[i].totalInvested, Zero)
        /\ Gt(properties[i].loanAmount, Zero)
        /\ Gt(properties[i].rent, Zero)
        /\ Gt(charts[i].equity[1], Zero)

\* (1 + inflation / 100)^n
growth(s, n) == Pow(Add(I(1), Div(s.inflation, I(100))), I(n))

\* the cashflow of year k as the projection is described: rent and recurring
\* costs inflated k - 1 times, the yearly mortgage payment as it is
yearCashflow(prop, s, k) ==
    Sub(Sub(Mul(Mul(prop.rent, I(12)), growth(s, k - 1)), Mul(prop.monthlyPayment, I(12))),
        Mul(Mul(OrElse(prop.monthlyCosts, Zero), I(12)), growth(s, k - 1)))

\* the cashflows of the years 1..n added up in this order
RECURSIVE cumulativeCashflow(_, _, _)
cumulativeCashflow(prop, s, n) ==
    IF n = 0 THEN Zero
    ELSE Add(cumulativeCashflow(prop, s, n - 1), yearCashflow(prop, s, n))

\* C11: in the projection of every charted property and every target year y,
\* the cashflow of each year i = 1..y is rent and recurring costs inflated by
\* (1 + inflation/100)^(i-1) less the un-inflated monthlyPayment * 12, the
\* property value is inflated by (1 + inflation/100)^y, both loops agree, and
\* the charted profit is built from these.
C11_InflatedCashflow ==
    \A i \in DOMAIN charts :
        \A y \in 0..chartYears :
            LET p     == properties[i]
                after == profitLoop(p, settings, y)
            IN  /\ roiLoop(p, settings, y) = after
                /\ after.currentPrice
                       = Mul(OrElse(p.afterRenoValue, p.price), growth(settings, y))
                /\ after.accumulatedCashflow = cumulativeCashflow(p, settings, y)
                /\ Gt(p.totalInvested, Zero)
                       => charts[i].profit[y + 1]
                              = Sub(Add(Sub(after.currentPrice,
                                            getRemainingBalance(p.loanAmount, p.rate,
                                                                p.term, I(y))),
                                        cumulativeCashflow(p, settings, y)),
                                    p.totalInvested)

\* the charts of a property with rent, recurring costs, a mortgage payment
\* and money invested, under an inflation above 0
C11_Witness ==
    \E i \in DOMAIN charts :
        /\ Gt(settings.inflation, Zero)
        /\ Gt(properties[i].rent, Zero)
        /\ Gt(OrElse(properties[i].monthlyCosts, Zero), Zero)
        /\ Gt(properties[i].monthlyPayment, Zero)
        /\ Gt(properties[i].totalInvested, Zero)
        /\ Len(charts[i].profit) >= 3

\* C12: for every charted property with totalInvested > 0 and every year of
\* the chart, the ROI percent of calculateProjectedROI is the profit of
\* calculateProjectedProfit divided by totalInvested, times 100.
C12_RoiIsProfitOverInvested ==
    \A i \in DOMAIN charts :
        Gt(properties[i].totalInvested, Zero)
            => \A y \in 1..(chartYears + 1) :
                   charts[i].roi[y]
                       = Mul(Div(charts[i].profit[y], properties[i].totalInvested), I(100))

\* the charts of a property with money invested, a cashflow other than 0 and
\* a profit other than 0 in the last year
C12_Witness ==
    \E i \in DOMAIN charts :
        /\ Gt(properties[i].totalInvested, Zero)
        /\ properties[i].cashflow # Zero
        /\ IsNum(charts[i].profit[chartYears + 1])
        /\ charts[i].profit[chartYears + 1] # Zero
        /\ charts[i].roi[chartYears + 1] # Zero

\* C13: for every charted property and every year y of the chart, the point
\* of the equity chart (the value compounded step by step less
\* getRemainingBalance at y) is the equity the projection computes for target
\* year y, the charted profit of a property with money invested is that
\* equity plus the cumulative cashflow less totalInvested, and the cumulative
\* cashflow at y + 1 is the one at y plus the cashflow of year y + 1.
C13_SeriesConsistent ==
    \A i \in DOMAIN charts :
        \A y \in 0..chartYears :
            LET p     == properties[i]
                after == profitLoop(p, settings, y)
            IN  /\ charts[i].equity[y + 1]
                       = Sub(after.currentPrice,
                             getRemainingBalance(p.loanAmount, p.rate, p.term, I(y)))
                /\ Gt(p.totalInvested, Zero)
                       => charts[i].profit[y + 1]
                              = Sub(Add(charts[i].equity[y + 1], after.accumulatedCashflow),
                                    p.totalInvested)
                /\ profitLoop(p, settings, y + 1).accumulatedCashflow
                       = Add(after.accumulatedCashflow, yearCashflow(p, settings, y + 1))

\* the charts of a property with a loan at interest and money invested, under
\* an inflation above 0, whose equity moves over the years
C13_Witness ==
    \E i \in DOMAIN charts :
        /\ Gt(settings.inflation, Zero)
        /\ Gt(properties[i].loanAmount, Zero)
        /\ Gt(properties[i].rate, Zero)
        /\ Gt(properties[i].totalInvested, Zero)
        /\ Gt(charts[i].equity[3], charts[i].equity[2])
        /\ Gt(charts[i].equity[2], charts[i].equity[1])

\* the cashflows of the years 1..n added up, the yearly mortgage payment
\* being deducted in the years of the loan term only
RECURSIVE scheduledCashflow(_, _, _)
scheduledCashflow(prop, s, n) ==
    IF n = 0 THEN Zero
    ELSE Add(scheduledCashflow(prop, s, n - 1),
             Sub(Sub(Mul(Mul(prop.rent, I(12)), growth(s, n - 1)),
                     IF Le(I(n), prop.term) THEN Mul(prop.monthlyPayment, I(12)) ELSE Zero),
                 Mul(Mul(OrElse(prop.monthlyCosts, Zero), I(12)), growth(s, n - 1))))

\* C20: for every charted property and every target year y, years beyond the
\* loan term included, the cumulative cashflow of both projections has the
\* mortgage deducted for min(y, term) years: monthlyPayment * 12 in each
\* year of the term and nothing in a later year.
C20_MortgageWithinTerm ==
    charts # <<>> =>
        \A i \in DOMAIN properties : \A y \in 0..chartYears :
            /\ roiLoop(properties[i], settings, y).accumulatedCashflow
                   = scheduledCashflow(properties[i], settings, y)
            /\ profitLoop(properties[i], settings, y).accumulatedCashflow
                   = scheduledCashflow(properties[i], settings, y)

\* ---------------------------------------------------------------------
\* The page (Spec): the handlers of the property list, the settings, the
\* shared view and local storage
\* ---------------------------------------------------------------------
MaxProperties == 1

\* JSON.parse(JSON.stringify(x)) of a Number: NaN and the infinities come
\* back as null, a missing field stays missing
jsonNumber(a) == IF a.k \in {"nan", "inf"} THEN Null ELSE a

jsonProp(p) ==
    [p EXCEPT !.price = jsonNumber(@), !.rent = jsonNumber(@), !.renoCost = jsonNumber(@),
              !.afterRenoValue = jsonNumber(@), !.monthlyCosts = jsonNumber(@),
              !.downPaymentPercent = jsonNumber(@), !.rate = jsonNumber(@),
              !.term = jsonNumber(@), !.downPayment = jsonNumber(@),
              !.totalInvested = jsonNumber(@), !.loanAmount = jsonNumber(@),
              !.monthlyPayment = jsonNumber(@), !.cashflow = jsonNumber(@)]

jsonList(props) == [i \in DOMAIN props |-> jsonProp(props[i])]

jsonSettings(s) ==
    [taxRate |-> jsonNumber(s.taxRate), lawyerRate |-> jsonNumber(s.lawyerRate),
     inflation |-> jsonNumber(s.inflation)]

\* { ...defaultSettings, ...parsed }: a field parsed lacks is undefined here
mergeSettings(parsed) ==
    [taxRate    |-> IF parsed.taxRate = Undefined THEN defaultSettings.taxRate
                    ELSE parsed.taxRate,
     lawyerRate |-> IF parsed.lawyerRate = Undefined THEN defaultSettings.lawyerRate
                    ELSE parsed.lawyerRate,
     inflation  |-> IF parsed.inflation = Undefined THEN defaultSettings.inflation
                    ELSE parsed.inflation]

\* loadSettings: the settings it assigns, from the stored value ss
loadSettings(ss) == IF ss = <<>> THEN defaultSettings ELSE mergeSettings(ss[1])

\* saveProperties writing in the shared view too
savePropertiesAlways(props) == <<jsonList(props)>>

\* saveSettings and saveProperties: the stored value after the call
saveSettings(s) == IF isSharedView THEN storedSettings ELSE <<jsonSettings(s)>>
saveProperties(props) == IF isSharedView THEN storedData ELSE <<jsonList(props)>>

\* properties.forEach(recalculateProperty) under the settings s
recalculateAll(props, s) ==
    [i \in DOMAIN props |-> Call("recalculateProperty", props[i], s, None, None, None)]

\* loadLocalProperties, from the stored value sd, under the settings s
loadLocalProperties(sd, s) ==
    IF sd = <<>> THEN <<>>
    ELSE [i \in DOMAIN sd[1] |->
             Call("recalculateProperty", [sd[1][i] EXCEPT !.isEditing = FALSE], s, None, None, None)]

\* properties.map(({ isEditing, ...rest }) => rest), as JSON
withoutEditing(props) == [i \in DOMAIN props |-> jsonProp([props[i] EXCEPT !.isEditing = FALSE])]

\* sharedProperties.map(p => ({ ...p, _isShared: true }))
tagged(props) == [i \in DOMAIN props |-> [props[i] EXCEPT !.isShared = TRUE]]

idsOf(props) == {props[i].id : i \in DOMAIN props}

\* Date.now() + i as an id: ids are told apart and never read as times, so
\* the i-th positive integer that is not among the ids in use stands for it
now(ids, i) ==
    CHOOSE n \in 1..(Cardinality(ids) + i) :
        n \notin ids /\ Cardinality({m \in 1..n : m \notin ids}) = i

usedIds ==
    idsOf(properties) \cup idsOf(sharedProperties)
        \cup (IF storedData = <<>> THEN {} ELSE idsOf(storedData[1]))

\* decodeShareData, the ids in use being t
decodeShareData(encoded, t) ==
    LET Decoded(d) ==
            IF d = <<>> THEN <<>>
            ELSE <<[settings   |-> d[1].settings,
                    properties |-> [i \in DOMAIN d[1].properties |->
                                       [d[1].properties[i] EXCEPT !.id = now(t, i)]]]>>
    IN  Decoded(Call("decodeShareData", encoded, None, None, None, None))

\* the values entered in the add form, as parseFloat reads them
formInputs ==
    { [name |-> "a", pValue |-> I(1), pDownPercent |-> I(20), pReno |-> Zero,
       pAfterRenoValue |-> NaN, pMonthlyCosts |-> Zero, pRate |-> Zero, pTerm |-> I(1),
       pRent |-> I(10)],
      [name |-> "b", pValue |-> Zero, pDownPercent |-> I(20), pReno |-> Zero,
       pAfterRenoValue |-> NaN, pMonthlyCosts |-> Zero, pRate |-> Zero, pTerm |-> I(1),
       pRent |-> I(10)],
      [name |-> "c", pValue |-> I(1), pDownPercent |-> I(20), pReno |-> Zero,
       pAfterRenoValue |-> NaN, pMonthlyCosts |-> Zero, pRate |-> NaN, pTerm |-> I(1),
       pRent |-> I(10)] }

\* the values entered in the row of a property in edit mode
editInputs ==
    { [name |-> "a", price |-> I(2), down |-> I(50), reno |-> NaN, rate |-> Zero,
       rent |-> I(12), afterreno |-> I(3), costs |-> I(1)],
      [name |-> "a", price |-> I(2), down |-> I(150), reno |-> NaN, rate |-> Zero,
       rent |-> I(12), afterreno |-> I(3), costs |-> I(1)] }

\* the values entered in the settings drawer
settingsInputs ==
    { [tax |-> I(10), lawyer |-> NaN, inflation |-> Zero] }

\* files offered to importData: whether JSON.parse succeeds, whether
\* data.properties is an array, data.settings (<<>> when absent) and the
\* elements of data.properties, null ones and two of the same id among them
importFiles ==
    LET prop == newProp(7, "c", I(3000000), I(20000), Zero, Undefined, Undefined,
                        I(30), Zero, I(1))
        tax(rate) == [taxRate |-> rate, lawyerRate |-> Undefined, inflation |-> Undefined]
    IN  { [parses |-> TRUE, hasProperties |-> TRUE, settings |-> <<tax(I(10))>>,
           properties |-> <<[isNull |-> FALSE, value |-> [prop EXCEPT !.isEditing = TRUE]],
                            [isNull |-> FALSE, value |-> [prop EXCEPT !.name = "d"]]>>],
          [parses |-> TRUE, hasProperties |-> TRUE, settings |-> <<tax(I(10))>>,
           properties |-> <<[isNull |-> TRUE, value |-> prop]>>],
          [parses |-> TRUE, hasProperties |-> FALSE, settings |-> <<tax(I(10))>>,
           properties |-> <<>>],
          [parses |-> FALSE, hasProperties |-> FALSE, settings |-> <<>>,
           properties |-> <<>>] }

\* the s parameter of the page address: absent, links other users shared
\* (one of them by a version that wrote 7 fields for a property, one edited
\* by hand), or text atob rejects
noText == [atob |-> FALSE, parts |-> <<>>]

shareParams ==
    { [given |-> FALSE, encoded |-> noText],
      [given |-> TRUE,
       encoded |-> [atob |-> TRUE,
                    parts |-> << <<String(I(2)), String(I(1)), String(I(3))>>,
                                 <<encodeURIComponent("s"), String(I(4)), String(I(30)),
                                   String(I(1)), String(I(50)), String(I(600)), String(I(1)),
                                   String(I(6)), String(I(5))>> >>]],
      [given |-> TRUE,
       encoded |-> [atob |-> TRUE,
                    parts |-> << <<String(I(2)), String(I(1)), String(I(-2))>>,
                                 <<encodeURIComponent("o"), String(I(4)), String(I(30)),
                                   String(I(1)), String(I(50)), String(I(600)),
                                   String(I(1))>> >>]],
      [given |-> TRUE,
       encoded |-> [atob |-> TRUE,
                    parts |-> << <<[text |-> "x", value |-> Zero], String(I(1)),
                                   String(I(3))>>,
                                 <<encodeURIComponent("x"), String(I(-4)), String(I(30)),
                                   String(Zero), String(I(150)), String(NaN), String(Zero),
                                   String(Zero), String(I(5))>> >>]],
      [given |-> TRUE, encoded |-> noText] }

\* what local storage holds when the page is first opened
initialStorage == {[settings |-> <<>>, data |-> <<>>]}

\* initApp: the script variables it leaves, for the page parameter param
\* and the stored values ss and sd
initApp(param, ss, sd) ==
    LET decoded == IF param.given
                   THEN decodeShareData(param.encoded, IF sd = <<>> THEN {} ELSE idsOf(sd[1]))
                   ELSE <<>>
        SharedView(s, shared) ==
            [isSharedView |-> TRUE, settings |-> s,
             sharedProperties |-> shared, properties |-> shared]
    IN  IF decoded # <<>>
        THEN LET s == mergeSettings(decoded[1].settings)
             IN  SharedView(s, recalculateAll(tagged(decoded[1].properties), s))
        ELSE LET s == loadSettings(ss)
             IN  [isSharedView |-> FALSE, settings |-> s,
                  sharedProperties |-> <<>>, properties |-> loadLocalProperties(sd, s)]

InitApp ==
    \E param \in shareParams, stored \in initialStorage :
        LET Opened(page) ==
                /\ storedSettings = stored.settings
                /\ storedData = stored.data
                /\ properties = page.properties
                /\ settings = page.settings
                /\ isSharedView = page.isSharedView
                /\ sharedProperties = page.sharedProperties
                /\ propertyIdToDelete = 0
                /\ previewWithMyData = FALSE
                /\ clipboard = <<>>
                /\ shown = <<>>
                /\ recalculated = {}
                /\ charts = <<>>
                /\ loan = noLoan
                /\ balances = <<>>
                /\ paid = 0
                /\ simulated = Zero
        IN  Opened(initApp(param, stored.settings, stored.data))

\* the page opened again (a reload, or a share link followed)
OpenPage(param) ==
    LET Opened(page) ==
            /\ properties' = page.properties
            /\ settings' = page.settings
            /\ isSharedView' = page.isSharedView
            /\ sharedProperties' = page.sharedProperties
            /\ propertyIdToDelete' = 0
            /\ previewWithMyData' = FALSE
            /\ UNCHANGED <<storedSettings, storedData, clipboard, shown, projVars, amortVars>>
    IN  Opened(initApp(param, storedSettings, storedData))

\* addProperty pushing the property whatever validateProperty reports
addPropertyUnvalidated(f) ==
    /\ ~isSharedView
    /\ Len(properties) < MaxProperties
    /\ LET Submit(form) ==
               /\ properties' = Append(properties, form.created)
               /\ storedData' = saveProperties(properties')
       IN  Submit(Call("addPropertyForm", f, now(usedIds, 1), settings, None, None))
    /\ UNCHANGED <<settings, isSharedView, sharedProperties, propertyIdToDelete,
                   storedSettings, previewWithMyData, clipboard, shown, projVars, amortVars>>

addProperty(f) ==
    /\ ~isSharedView
    /\ Len(properties) < MaxProperties
    /\ LET Submit(form) ==
               IF form.errors # <<>>
               THEN UNCHANGED <<properties, storedData>>
               ELSE /\ properties' = Append(properties, form.created)
                    /\ storedData' = saveProperties(properties')
       IN  Submit(Call("addPropertyForm", f, now(usedIds, 1), settings, None, None))
    /\ UNCHANGED <<settings, isSharedView, sharedProperties, propertyIdToDelete,
                   storedSettings, previewWithMyData, clipboard, shown, projVars, amortVars>>

toggleEdit(id, e) ==
    /\ ~isSharedView
    /\ \E i \in DOMAIN properties :
           /\ properties[i].id = id
           /\ \A j \in 1..(i - 1) : properties[j].id # id
           /\ LET Save(form) ==
                      IF form.errors # <<>>
                      THEN UNCHANGED <<properties, storedData>>
                      ELSE /\ storedData' = saveProperties([properties EXCEPT ![i] = form.saved])
                           /\ properties' = [properties EXCEPT
                                                ![i] = [form.saved EXCEPT !.isEditing = FALSE]]
              IN  IF properties[i].isEditing
                  THEN Save(Call("toggleEditForm", properties[i], e, settings, None, None))
                  ELSE /\ properties' = [properties EXCEPT ![i].isEditing = TRUE]
                       /\ UNCHANGED storedData
    /\ UNCHANGED <<settings, isSharedView, sharedProperties, propertyIdToDelete,
                   storedSettings, previewWithMyData, clipboard, shown, projVars, amortVars>>

removeProperty(id) ==
    /\ ~isSharedView
    /\ id \in idsOf(properties)
    /\ propertyIdToDelete' = id
    /\ UNCHANGED <<properties, settings, isSharedView, sharedProperties, storedSettings,
                   storedData, previewWithMyData, clipboard, shown, projVars, amortVars>>

closeDeleteModal ==
    /\ propertyIdToDelete' = 0
    /\ UNCHANGED <<properties, settings, isSharedView, sharedProperties, storedSettings,
                   storedData, previewWithMyData, clipboard, shown, projVars, amortVars>>

executeDelete ==
    /\ propertyIdToDelete # 0
    /\ properties' = SelectSeq(properties, LAMBDA p : p.id # propertyIdToDelete)
    /\ storedData' = saveProperties(properties')
    /\ propertyIdToDelete' = 0
    /\ UNCHANGED <<settings, isSharedView, sharedProperties, storedSettings,
                   previewWithMyData, clipboard, shown, projVars, amortVars>>

onSettingsChange(input) ==
    /\ settings' = [taxRate    |-> OrElse(input.tax, defaultSettings.taxRate),
                    lawyerRate |-> OrElse(input.lawyer, defaultSettings.lawyerRate),
                    inflation  |-> OrElse(input.inflation, defaultSettings.inflation)]
    /\ storedSettings' = saveSettings(settings')
    /\ properties' = recalculateAll(properties, settings')
    /\ storedData' = saveProperties(properties')
    /\ UNCHANGED <<isSharedView, sharedProperties, propertyIdToDelete, previewWithMyData,
                   clipboard, shown, projVars, amortVars>>

\* reader.onload of importData: an exception (JSON.parse failing, or a null
\* element of data.properties, whose isEditing cannot be set) ends the
\* handler in its catch block, with what was assigned before it in place
importData(file) ==
    /\ IF ~file.parses \/ ~file.hasProperties
       THEN UNCHANGED <<properties, settings, storedSettings, storedData>>
       ELSE /\ settings' = IF file.settings # <<>> THEN mergeSettings(file.settings[1])
                           ELSE settings
            /\ storedSettings' = IF file.settings # <<>> THEN saveSettings(settings')
                                 ELSE storedSettings
            /\ IF \E i \in DOMAIN file.properties : file.properties[i].isNull
               THEN UNCHANGED <<properties, storedData>>
               ELSE /\ properties' =
                           [i \in DOMAIN file.properties |->
                               Call("recalculateProperty", [file.properties[i].value EXCEPT !.isEditing = FALSE], settings', None, None, None)]
                    /\ storedData' = saveProperties(properties')
    /\ UNCHANGED <<isSharedView, sharedProperties, propertyIdToDelete, previewWithMyData,
                   clipboard, shown, projVars, amortVars>>

\* shareData: the link is copied unless the list is empty
shareData ==
    /\ properties # <<>>
    /\ clipboard' = <<Call("encodeShareData", settings, properties, None, None, None)>>
    /\ UNCHANGED <<properties, settings, isSharedView, sharedProperties, propertyIdToDelete,
                   storedSettings, storedData, previewWithMyData, shown, projVars, amortVars>>

\* the buttons of the shared banner, which is shown in the shared view only
replaceWithSharedData ==
    /\ isSharedView
    /\ Len(properties) <= MaxProperties
    /\ isSharedView' = FALSE
    /\ sharedProperties' = <<>>
    /\ previewWithMyData' = FALSE
    /\ storedSettings' = <<jsonSettings(settings)>>
    /\ storedData' = <<withoutEditing(properties)>>
    /\ UNCHANGED <<properties, settings, propertyIdToDelete, clipboard, shown, projVars, amortVars>>

addSharedData ==
    /\ isSharedView
    /\ LET localProps == loadLocalProperties(storedData, settings)
           Merge(merged) ==
               /\ Len(merged) <= MaxProperties
               /\ settings' = loadSettings(storedSettings)
               /\ properties' = recalculateAll(merged, settings')
               /\ storedData' = <<withoutEditing(properties')>>
       IN  Merge(localProps \o [i \in DOMAIN sharedProperties |->
                                   [sharedProperties[i] EXCEPT !.id = now(usedIds, i)]])
    /\ isSharedView' = FALSE
    /\ sharedProperties' = <<>>
    /\ previewWithMyData' = FALSE
    /\ UNCHANGED <<propertyIdToDelete, storedSettings, clipboard, shown, projVars, amortVars>>

\* dismissSharedData leaving the settings of the link in place
dismissSharedDataKeepsSettings ==
    /\ isSharedView
    /\ isSharedView' = FALSE
    /\ sharedProperties' = <<>>
    /\ previewWithMyData' = FALSE
    /\ properties' = loadLocalProperties(storedData, settings)
    /\ UNCHANGED <<settings, propertyIdToDelete, storedSettings, storedData,
                   clipboard, shown, projVars, amortVars>>

dismissSharedData ==
    /\ isSharedView
    /\ isSharedView' = FALSE
    /\ sharedProperties' = <<>>
    /\ previewWithMyData' = FALSE
    /\ settings' = loadSettings(storedSettings)
    /\ properties' = loadLocalProperties(storedData, settings')
    /\ UNCHANGED <<propertyIdToDelete, storedSettings, storedData,
                   clipboard, shown, projVars, amortVars>>

\* a click on the checkbox, which changes its state before the handler runs
togglePreviewMyData ==
    /\ isSharedView
    /\ previewWithMyData' = ~previewWithMyData
    /\ IF previewWithMyData'
       THEN /\ settings' = loadSettings(storedSettings)
            /\ properties' = recalculateAll(
                                 loadLocalProperties(storedData, settings)
                                     \o tagged(sharedProperties),
                                 settings')
       ELSE /\ properties' = recalculateAll(tagged(sharedProperties), settings)
            /\ UNCHANGED settings
    /\ UNCHANGED <<isSharedView, sharedProperties, propertyIdToDelete, storedSettings,
                   storedData, clipboard, shown, projVars, amortVars>>

Init == InitApp

Next ==
    \/ \E param \in shareParams : OpenPage(param)
    \/ \E f \in formInputs : addProperty(f)
    \/ \E id \in idsOf(properties), e \in editInputs : toggleEdit(id, e)
    \/ \E id \in idsOf(properties) : removeProperty(id)
    \/ closeDeleteModal
    \/ executeDelete
    \/ \E input \in settingsInputs : onSettingsChange(input)
    \/ \E file \in importFiles : importData(file)
    \/ replaceWithSharedData
    \/ addSharedData
    \/ dismissSharedData
    \/ togglePreviewMyData

Spec == Init /\ [][Next]_vars

\* C1: in every state every property of the displayed list has its derived
\* fields (downPayment, totalInvested, loanAmount, monthlyPayment, cashflow)
\* equal to what recalculateProperty gives for the property under the
\* current settings.
C1_DerivedFieldsCurrent ==
    \A i \in DOMAIN properties :
        LET again == recalculateProperty(properties[i], settings)
        IN  /\ again.downPayment = properties[i].downPayment
            /\ again.totalInvested = properties[i].totalInvested
            /\ again.loanAmount = properties[i].loanAmount
            /\ again.monthlyPayment = properties[i].monthlyPayment
            /\ again.cashflow = properties[i].cashflow

\* ---------------------------------------------------------------------
\* Share links (SpecShare): a list is shared and the link is followed
\* ---------------------------------------------------------------------
\* a property as loadLocalProperties reads it after its rate, left empty in
\* the add form, was stored: JSON.stringify writes NaN as null
storedProperty ==
    newProp(1, "loft", I(12345678), I(98765), I(250000), I(13000000), I(4321),
            I(25), Null, I(1))

sharedInputs == inputProperties \cup {storedProperty}

InitShare ==
    /\ settings \in inputSettings
    /\ \E p \in sharedInputs, q \in {r \in sharedInputs : r.name \in {"flat", "loft"}} :
           properties = recalculateAll(<<p, [q EXCEPT !.id = 2]>>, settings)
    /\ InitPage
    /\ recalculated = {}
    /\ charts = <<>>
    /\ loan = noLoan
    /\ balances = <<>>
    /\ paid = 0
    /\ simulated = Zero

\* the link on the clipboard is opened
followLink ==
    /\ clipboard # <<>>
    /\ OpenPage([given |-> TRUE, encoded |-> clipboard[1]])
    /\ UNCHANGED clipboard

NextShare == shareData \/ followLink

SpecShare == InitShare /\ [][NextShare]_vars

\* the raw inputs of a property
rawInputs(p) ==
    [name |-> p.name, price |-> p.price, rent |-> p.rent, renoCost |-> p.renoCost,
     downPaymentPercent |-> p.downPaymentPercent, rate |-> p.rate, term |-> p.term,
     afterRenoValue |-> p.afterRenoValue, monthlyCosts |-> p.monthlyCosts]

\* the derived fields of a property
derivedFields(p) ==
    [downPayment |-> p.downPayment, totalInvested |-> p.totalInvested,
     loanAmount |-> p.loanAmount, monthlyPayment |-> p.monthlyPayment,
     cashflow |-> p.cashflow]

\* decoding link gives the settings s and the raw inputs of props, and
\* recalculateProperty gives the decoded properties the derived fields it
\* gives props
reproduces(link, s, props) ==
    LET Same(d) ==
            /\ d # <<>>
            /\ d[1].settings = s
            /\ DOMAIN d[1].properties = DOMAIN props
            /\ \A i \in DOMAIN props :
                   /\ rawInputs(d[1].properties[i]) = rawInputs(props[i])
                   /\ derivedFields(recalculateProperty(d[1].properties[i], d[1].settings))
                          = derivedFields(recalculateProperty(props[i], s))
    IN  Same(decodeShareDataParts(link))

\* C15: the link shareData copies decodes to the settings and to the raw
\* inputs of every property of the list it was made of, and recompute
\* gives the decoded properties the same derived fields.
C15_ShareRoundTrip ==
    [][clipboard' # clipboard => reproduces(clipboard'[1], settings, properties)]_vars

\* C16: a property of a share link written with 7 fields, or with a
\* renovation value of 0, and a property of an imported file that lacks
\* afterRenoValue or monthlyCosts (or holds 0 there) is accepted and is in
\* the list with afterRenoValue = price and monthlyCosts = 0 respectively.
C16_MissingFieldsDefaulted ==
    [][/\ \A param \in shareParams :
              (/\ param.given /\ param.encoded.atob /\ isSharedView'
               /\ properties' = sharedProperties'
               /\ Len(properties') = Len(param.encoded.parts) - 1
               /\ \A i \in DOMAIN properties' :
                      properties'[i].name = decodeURIComponent(param.encoded.parts[i + 1][1])
               /\ OpenPage(param))
                  => /\ Len(properties') = Len(param.encoded.parts) - 1
                     /\ \A i \in DOMAIN properties' :
                            LET fields == param.encoded.parts[i + 1]
                            IN  /\ (Len(fields) < 8 \/ ~Truthy(parseFloat(fields[8])))
                                       => properties'[i].afterRenoValue = properties'[i].price
                                /\ Len(fields) < 9 => properties'[i].monthlyCosts = Zero
       /\ \A file \in importFiles :
              (/\ file.parses /\ file.hasProperties
               /\ \A i \in DOMAIN file.properties : ~file.properties[i].isNull
               /\ UNCHANGED <<isSharedView, sharedProperties, propertyIdToDelete>>
               /\ Len(properties') = Len(file.properties)
               /\ \A i \in DOMAIN properties' :
                      properties'[i].name = file.properties[i].value.name
               /\ importData(file))
                  => /\ Len(properties') = Len(file.properties)
                     /\ \A i \in DOMAIN properties' :
                            LET entered == file.properties[i].value
                            IN  /\ ~Truthy(entered.afterRenoValue)
                                       => properties'[i].afterRenoValue = properties'[i].price
                                /\ ~Truthy(entered.monthlyCosts)
                                       => properties'[i].monthlyCosts = Zero]_vars

\* the link written with 7 fields is open, its property defaulted
C16_Witness ==
    /\ isSharedView
    /\ Len(properties) = 1
    /\ properties[1].name = "o"
    /\ properties[1].afterRenoValue = I(4000000)
    /\ properties[1].price = I(4000000)
    /\ properties[1].monthlyCosts = Zero

\* C17: every property of the displayed list, all of which recalculateProperty
\* was applied to, satisfies what validation asks: price > 0,
\* 0 <= downPaymentPercent <= 100, rate >= 0, term >= 1 and rent >= 0, a
\* field that is no number not passing.
C17_ValidatedBeforeRecompute ==
    \A i \in DOMAIN properties :
        /\ Gt(properties[i].price, Zero)
        /\ Ge(properties[i].downPaymentPercent, Zero)
        /\ Le(properties[i].downPaymentPercent, I(100))
        /\ Ge(properties[i].rate, Zero)
        /\ Ge(properties[i].term, I(1))
        /\ Ge(properties[i].rent, Zero)

\* C18: in every state the tax rate, the lawyer fee rate and the inflation
\* of the settings are finite numbers.
C18_RatesFinite ==
    /\ IsNum(settings.taxRate)
    /\ IsNum(settings.lawyerRate)
    /\ IsNum(settings.inflation)

\* C21: in shared view a step of addProperty, toggleEdit or removeProperty
\* leaves the property list as it is, and only replaceWithSharedData and
\* addSharedData change the stored property data or the stored settings.
C21_SharedViewReadOnly ==
    [][isSharedView =>
           /\ properties' # properties =>
                  /\ ~\E f \in formInputs : addProperty(f)
                  /\ ~\E id \in idsOf(properties), e \in editInputs : toggleEdit(id, e)
                  /\ ~\E id \in idsOf(properties) : removeProperty(id)
           /\ (storedData' # storedData \/ storedSettings' # storedSettings) =>
                  replaceWithSharedData \/ addSharedData]_vars

\* in shared view the settings were changed and nothing was stored
C21_Witness ==
    /\ isSharedView
    /\ settings.taxRate = I(10)
    /\ properties # <<>>
    /\ storedSettings = <<>>
    /\ storedData = <<>>

\* C22: after replaceWithSharedData local storage holds the settings of a
\* share link and exactly the properties of that link, as recomputed under
\* those settings.
C22_ReplaceStoresLink ==
    [][replaceWithSharedData =>
           \E param \in shareParams :
               /\ param.given
               /\ decodeShareDataParts(param.encoded) # <<>>
               /\ LET link   == decodeShareDataParts(param.encoded)[1]
                      stored == storedData'[1]
                  IN  /\ storedSettings' = <<jsonSettings(mergeSettings(link.settings))>>
                      /\ DOMAIN stored = DOMAIN link.properties
                      /\ \A i \in DOMAIN stored :
                             rawInputs(stored[i])
                                 = rawInputs(jsonProp(recalculateProperty(
                                       link.properties[i], mergeSettings(link.settings))))]_vars

\* C23: a step of executeDelete has a pending selection, removes exactly the
\* one property the selection names, leaves the others in place and in
\* order and clears the selection; and outside the shared view the list
\* loses properties, the others staying, only in a step of executeDelete.
C23_DeleteExactlySelected ==
    [][/\ executeDelete =>
              /\ propertyIdToDelete # 0
              /\ propertyIdToDelete' = 0
              /\ \E i \in DOMAIN properties :
                     /\ properties[i].id = propertyIdToDelete
                     /\ properties' = [j \in 1..(Len(properties) - 1) |->
                                          IF j < i THEN properties[j] ELSE properties[j + 1]]
       /\ (/\ ~isSharedView /\ ~isSharedView'
           /\ Len(properties') < Len(properties)
           /\ properties' = SelectSeq(properties, LAMBDA p : p.id \in idsOf(properties')))
              => executeDelete]_vars

\* C24: a step of addProperty with form values validateProperty reports
\* errors for, and a step of toggleEdit on a property in edit mode with row
\* values it reports errors for, change neither the list (the edited
\* property staying in edit mode) nor what is stored.
C24_FailedValidationChangesNothing ==
    [][(properties' # properties \/ storedData' # storedData
            \/ storedSettings' # storedSettings) =>
           /\ \A f \in formInputs :
                  (/\ ~isSharedView
                   /\ Len(properties) < MaxProperties
                   /\ addPropertyForm(f, now(usedIds, 1), settings).errors # <<>>)
                      => ~addProperty(f)
           /\ \A i \in DOMAIN properties : \A e \in editInputs :
                  (/\ ~isSharedView
                   /\ properties[i].isEditing
                   /\ \A j \in 1..(i - 1) : properties[j].id # properties[i].id
                   /\ toggleEditForm(properties[i], e, settings).errors # <<>>)
                      => ~toggleEdit(properties[i].id, e)]_vars

\* a property is in edit mode, where row values can be refused
C24_Witness ==
    /\ ~isSharedView
    /\ storedData # <<>>
    /\ \E i \in DOMAIN properties :
           /\ properties[i].isEditing
           /\ \E e \in editInputs : toggleEditForm(properties[i], e, settings).errors # <<>>

\* C25: after a step of dismissSharedData the page is out of the shared
\* view, the settings are the stored ones (the defaults where none are
\* stored), and the list holds the stored properties, none in edit mode and
\* each with the derived fields recalculateProperty gives under these
\* settings; storage is as it was.
C25_DismissRestoresStored ==
    [][(isSharedView /\ ~isSharedView' /\ dismissSharedData) =>
           /\ ~isSharedView'
           /\ sharedProperties' = <<>>
           /\ UNCHANGED <<storedSettings, storedData>>
           /\ settings' = IF storedSettings = <<>> THEN defaultSettings
                          ELSE mergeSettings(storedSettings[1])
           /\ properties' =
                  IF storedData = <<>> THEN <<>>
                  ELSE [i \in DOMAIN storedData[1] |->
                           Call("recalculateProperty",
                                [storedData[1][i] EXCEPT !.isEditing = FALSE], settings',
                                None, None, None)]]_vars

\* a shared view over stored data of the user, under other settings than
\* the stored ones
C25_Witness ==
    /\ isSharedView
    /\ storedData # <<>>
    /\ storedData[1] # <<>>
    /\ settings # loadSettings(storedSettings)

\* C26: a step of onSettingsChange sets each of taxRate, lawyerRate and
\* inflation to the number entered, 0 included, and to the default only
\* when the entry is no number.
C26_EnteredSettingsKept ==
    [][\A input \in settingsInputs :
           onSettingsChange(input) =>
               /\ settings'.taxRate = IF IsNaN(input.tax) THEN defaultSettings.taxRate
                                      ELSE input.tax
               /\ settings'.lawyerRate = IF IsNaN(input.lawyer) THEN defaultSettings.lawyerRate
                                         ELSE input.lawyer
               /\ settings'.inflation = IF IsNaN(input.inflation) THEN defaultSettings.inflation
                                        ELSE input.inflation]_vars
====
